---- MODULE Spec2Model ----
(***************************************************************************)
(* Chat-driven task manager (backend/src): the deterministic intent        *)
(* detector (ai_agent/intent_detector.py), the chat turn handler           *)
(* (routes/chat.py), the LLM runner (ai_agent/runner.py) and the task      *)
(* store tools (mcp_tools/*.py).                                           *)
(*                                                                         *)
(* Text is modelled by what the code tests on it.  A user message is the   *)
(* sequence of its lower-cased words; `kw in message_lower` is a substring *)
(* test on one of the words (no keyword of the code that is tested on a    *)
(* user message contains a blank, except the phrases handled by Adjacent). *)
(* An assistant message is the reply template that produced it together    *)
(* with the values interpolated into it; the keywords it contains are the  *)
(* keywords of the template's literal text plus those of the interpolated  *)
(* values.                                                                 *)
(***************************************************************************)
EXTENDS Integers, Sequences, FiniteSets, TLC

\* Number of chat turns explored in one conversation.
MaxTurns == 3

\* Number of chat requests explored when requests overlap.
MaxRequests == 3

User  == "u1"
Other == "u2"

NoId    == 0
NoTitle == ""

\* intent_detector.py:229 - a yes/no reply has at most three words
ShortReplyWords == 3

(***************************************************************************)
(* User messages                                                           *)
(***************************************************************************)

\* The utterances a user sends in this model, as word sequences.
UserMessages ==
    { <<"yes">>, <<"ok">>, <<"no">>, <<"mat">>, <<"no", "thanks">>,
      <<"delete", "task", "1">>, <<"delete", "task", "2">>,
      <<"update", "task", "1">>,
      <<"update", "task", "1", "priority", "to", "high">>,
      <<"update", "task", "1", "remove", "due", "date">>,
      <<"complete", "task", "1">>,
      <<"mark", "task", "1", "as", "incomplete">>,
      <<"add", "task", "buy", "milk">>,
      <<"show", "all", "tasks">>,
      <<"hello">> }

\* Keywords of the code that occur inside a word (Python's `kw in text`).
Substrings(w) ==
    CASE w = "yes"        -> {"yes"}
      [] w = "ok"         -> {"ok"}
      [] w = "no"         -> {"no"}
      [] w = "mat"        -> {"mat"}
      [] w = "thanks"     -> {"han"}
      [] w = "change"     -> {"han", "change"}
      [] w = "delete"     -> {"delete"}
      [] w = "update"     -> {"update"}
      [] w = "priority"   -> {"priority"}
      [] w = "to"         -> {"to"}
      [] w = "high"       -> {"high"}
      [] w = "remove"     -> {"remove"}
      [] w = "due"        -> {"due"}
      [] w = "complete"   -> {"complete"}
      [] w = "mark"       -> {"mark"}
      [] w = "incomplete" -> {"complete", "incomplete"}
      [] w = "uncomplete" -> {"complete"}
      [] w = "unmark"     -> {"mark"}
      [] w = "tomorrow"   -> {"to", "tomorrow"}
      [] w = "pending"    -> {"pending"}
      [] w = "undone"     -> {"undone", "done"}
      [] w = "done"       -> {"done"}
      [] w = "urgent"     -> {"urgent"}
      [] w = "normal"     -> {"no", "normal"}
      [] w = "deadline"   -> {"deadline"}
      [] OTHER            -> {}

\* `kw in message_lower` for a keyword without blanks
Contains(msg, kw) == \E i \in DOMAIN msg : kw \in Substrings(msg[i])

ContainsAny(msg, kws) == \E kw \in kws : Contains(msg, kw)

\* a regex or phrase of whole words separated by \s+
Adjacent(msg, ws) ==
    \E i \in 1..(Len(msg) - Len(ws) + 1) :
        \A j \in 1..Len(ws) : msg[i + j - 1] = ws[j]

HasWord(msg, w) == \E i \in DOMAIN msg : msg[i] = w

\* int(group) of a \d+ capture
IdOfWord(w) == CASE w = "1" -> 1 [] w = "2" -> 2 [] w = "3" -> 3 [] OTHER -> NoId

\* intent_detector.py:122-123
CONFIRM_YES == {"yes", "yeah", "yep", "sure", "ok", "okay", "haan", "han", "theek", "bilkul"}
CONFIRM_NO  == {"no", "nah", "nope", "cancel", "nahi", "na", "mat"}

\* intent_detector.py:108-112, in the dict's iteration order
PriorityLevels == <<"high", "medium", "low">>
PRIORITY_MAP(level) ==
    CASE level = "high"   -> {"high", "urgent", "important", "critical", "asap", "zaruri"}
      [] level = "medium" -> {"medium", "normal", "regular"}
      [] level = "low"    -> {"low", "minor", "trivial", "later", "someday"}

\* intent_detector.py:115-119 (the one-word entries)
DATE_KEYWORDS ==
    {"tomorrow", "today", "deadline", "due", "by", "until", "kal", "monday",
     "tuesday", "wednesday", "thursday", "friday", "saturday", "sunday"}

\* a yes or no read from a reply of any length
AnyLengthResponse(msg, confirm) ==
    ContainsAny(msg, IF confirm THEN CONFIRM_YES ELSE CONFIRM_NO)

\* intent_detector.py:216-231
IsConfirmationResponse(msg, confirm) ==
    /\ Len(msg) <= ShortReplyWords
    /\ ContainsAny(msg, IF confirm THEN CONFIRM_YES ELSE CONFIRM_NO)

(***************************************************************************)
(* Assistant messages: a reply template and the values interpolated in it  *)
(***************************************************************************)

\* kind:  the template;  op: the operation or tool it speaks of;
\* id:    the task id printed as "Task #id" (NoId when none is printed);
\* title: the task title printed in quotes or parentheses (NoTitle when none);
\* items: the further interpolated lines, as <<name, value>> pairs.
Reply(kind, op, id, title, items) ==
    [kind |-> kind, op |-> op, id |-> id, title |-> title, items |-> items]

NoReply == Reply("none", "", NoId, NoTitle, {})

UserTurn(msg)    == [role |-> "user", words |-> msg, reply |-> NoReply]
AssistantTurn(r) == [role |-> "assistant", words |-> <<>>, reply |-> r]

\* A text of the LLM that asks for a confirmation itself and names the task
\* by a title.
AskDeleteMilks == "are you sure you want to delete task 'milks'?"

\* A text of the LLM that asks for the title of a task to add.
AskAddTitle == "what's the title of the task you'd like to add?"

\* Keywords of the code inside an interpolated value (a title, a date text).
TextKeywords(s) ==
    CASE s = "confirm flight" -> {"confirm"}
      [] OTHER                -> {}

\* Keywords inside the literal text of each reply template.  "x?" stands for
\* the regex  x.*\?  (the word, then a question mark on the same line).
TemplateKeywords(kind, op) ==
    CASE kind = "confirm" /\ op = "delete" ->          \* chat.py:438
            {"sure", "confirm", "delete", "cancel", "delete?"}
      [] kind = "confirm" /\ op = "complete" ->        \* chat.py:457
            {"confirm", "complete", "mark", "cancel", "complete?", "mark?"}
      [] kind = "confirm" /\ op = "incomplete" ->      \* chat.py:476
            {"confirm", "incomplete", "complete", "mark", "cancel", "complete?", "mark?"}
      [] kind = "confirm" /\ op = "update" ->          \* chat.py:495-499
            {"confirm", "update", "change", "cancel", "update?"}
      [] kind = "update_ask" ->                        \* chat.py:505-515
            {"confirm", "remove", "update", "change", "incomplete", "complete",
             "mark", "update?", "what would you like to update", "you can reply like"}
      [] kind = "generic" ->                           \* chat.py:517
            {"sure", "confirm", "cancel"}
      [] kind = "cancelled" ->                         \* chat.py:380
            {"update", "change", "cancel"}
      [] kind = "result" /\ op = "update_task" ->      \* chat.py:1558-1560
            {"update"}
      [] kind = "result" /\ op = "delete_task" ->      \* chat.py:1564
            {"remove"}
      [] kind = "result" /\ op = "complete_task" ->    \* chat.py:1568
            {"complete", "mark"}
      [] kind = "done" ->                              \* chat.py:1573
            {"done"}
      [] kind = "errors" ->                            \* chat.py:1577
            {"complete"}
      [] kind = "llm" /\ op = "gen_complete" ->        \* runner.py:266
            {"complete", "mark"}
      [] kind = "llm" /\ op = "gen_update" ->          \* runner.py:269
            {"update"}
      [] kind = "llm" /\ op = "gen_delete" ->          \* runner.py:272
            {"remove"}
      [] kind = "llm" /\ op = "gen_other" ->           \* runner.py:274
            {"done"}
      [] kind = "llm" /\ op = AskDeleteMilks ->
            {"sure", "delete", "delete?"}
      [] kind = "llm" /\ op = AskAddTitle ->
            {"what's the title", "title of the task"}
      [] kind = "candidate" /\ op = "update" ->        \* chat.py:564-569
            {"confirm", "cancel", "update", "update?", "task you want"}
      [] kind = "candidate" /\ op = "delete" ->        \* chat.py:807-812
            {"confirm", "cancel", "delete", "delete?", "task you want"}
      [] kind = "candidate" /\ op = "complete" ->      \* chat.py:900-905
            {"confirm", "cancel", "complete", "mark", "complete?", "mark?", "task you want"}
      [] kind = "candidate" /\ op = "incomplete" ->    \* chat.py:990-995
            {"confirm", "cancel", "incomplete", "complete", "mark", "complete?", "mark?",
             "task you want"}
      [] kind = "not_found" ->                         \* chat.py:601-605 and copies
            {"specify the task"}
      [] OTHER -> {}

\* Keywords inside one interpolated line.
ItemKeywords(kind, item) ==
    CASE kind = "confirm" /\ item[1] = "due_date" /\ item[2] = "NULL" -> {"remove"}  \* "Due date -> removed"
      [] kind = "confirm" /\ item[1] = "description" -> {"update"}                  \* "Description -> updated"
      [] kind = "confirm" /\ item[1] = "completed" -> {"complete"}                  \* "Completed -> True"
      [] kind = "confirm" /\ item[1] = "none" -> {"change"}                         \* "(no changes detected)"
      [] kind = "result" /\ item[1] = "due_date" /\ item[2] = "NULL" -> {"remove"}   \* "removed due date"
      [] kind = "result" /\ item[1] = "completed" /\ item[2] = "true" -> {"mark", "complete"}
      [] kind = "result" /\ item[1] = "completed" ->  {"mark", "complete", "incomplete"}
      [] kind = "result" /\ item[1] = "priority" -> {}
      [] kind = "errors" /\ item[1] = "delete_task" -> {"delete"} \cup TextKeywords(item[2])
      [] kind = "errors" /\ item[1] = "update_task" -> {"update"} \cup TextKeywords(item[2])
      [] kind = "errors" /\ item[1] = "complete_task" -> {"complete"} \cup TextKeywords(item[2])
      [] OTHER -> TextKeywords(item[2])

\* `kw in content` for the lower-cased text of an assistant message
ReplyKeywords(r) ==
    TemplateKeywords(r.kind, r.op) \cup TextKeywords(r.title)
        \cup UNION { ItemKeywords(r.kind, it) : it \in r.items }

Has(r, kw) == kw \in ReplyKeywords(r)

HasAny(r, kws) == (kws \cap ReplyKeywords(r)) # {}

\* a detector that reads no task id from the assistant's text
TaskIdInNothing(r) == NoId

\* re.search(r'task\s+#?(\d+)', content): the templates that print "Task #id"
\* (or "task id") print it before any other digit.
TaskIdIn(r) ==
    IF r.kind \in {"confirm", "update_ask", "candidate", "result"}
          \/ (r.kind = "llm" /\ r.op \in {"gen_complete", "gen_update", "gen_delete"})
    THEN r.id ELSE NoId

\* re.search(r"task\s+['\"](.+?)['\"]", content): only "Task 'title'" matches,
\* which the confirmation templates print when no id is known.
TaskTitleIn(r) ==
    IF r.kind \in {"confirm", "update_ask"} /\ r.id = NoId THEN r.title
    ELSE IF r.kind = "llm" /\ r.op = AskDeleteMilks THEN "milks"
    ELSE NoTitle

(***************************************************************************)
(* Intent detector (ai_agent/intent_detector.py)                           *)
(***************************************************************************)

\* params is a set of <<field, value>> pairs; the value "NULL" is Python's None
Intent(operation, task_id, task_title, params, needs_confirmation) ==
    [operation |-> operation, task_id |-> task_id, task_title |-> task_title,
     params |-> params, needs_confirmation |-> needs_confirmation]

\* detect_intent returning None
NoIntent == Intent("none", NoId, NoTitle, {}, FALSE)

HasParam(params, field) == \E p \in params : p[1] = field

\* the text of a captured group, for the phrases of UserMessages
Join(ws) ==
    CASE ws = <<"buy", "milk">> -> "buy milk"
      [] ws = <<"urgent", "report">> -> "urgent report"
      [] ws = <<"add", "task", "buy", "milk">> -> "add task buy milk"
      [] ws = <<"add", "a", "new", "task">> -> "add a new task"
      [] Len(ws) = 1            -> ws[1]
      [] OTHER                  -> "text"

\* the transcript without a window
Whole(h, k) == h

\* conversation_history[-k:]
LastK(h, k) == SubSeq(h, (IF Len(h) > k THEN Len(h) - k + 1 ELSE 1), Len(h))

\* the most recent assistant message of the whole transcript that asks a
\* question
LastQuestionAsked(h, k) ==
    LET idx == {i \in DOMAIN h : h[i].role = "assistant" /\ h[i].reply.kind = "confirm"}
    IN  IF idx = {} THEN (IF h = <<>> \/ h[Len(h)].role # "assistant" THEN NoReply
                          ELSE h[Len(h)].reply)
        ELSE h[CHOOSE i \in idx : \A j \in idx : j <= i].reply

\* for msg in reversed(history[-k:]): if msg.role == 'assistant': ...; break
LastAssistant(h, k) ==
    LET w == LastK(h, k)
        idx == {i \in DOMAIN w : w[i].role = "assistant"}
    IN  IF idx = {} THEN NoReply
        ELSE w[CHOOSE i \in idx : \A j \in idx : j <= i].reply

\* the user messages of history[-k:], most recent first
RecentUserMessages(h, k) ==
    LET w == LastK(h, k)
        F[i \in 0..Len(w)] ==
            IF i = 0 THEN <<>>
            ELSE IF w[i].role = "user" THEN <<w[i].words>> \o F[i - 1] ELSE F[i - 1]
    IN  F[Len(w)]

\* remove\s+(?:the\s+)?(?:deadline|due\s+date|due_date)|no\s+(?:deadline|due\s+date)
\*   |cancel\s+(?:deadline|due\s+date)
RemovesDueDate(msg) ==
    \E v \in {<<"remove">>, <<"remove", "the">>, <<"no">>, <<"cancel">>} :
        \/ Adjacent(msg, v \o <<"deadline">>)
        \/ Adjacent(msg, v \o <<"due", "date">>)
        \/ (v[1] = "remove" /\ Adjacent(msg, v \o <<"due_date">>))

\* for level, keywords in PRIORITY_MAP.items(): if any(k in text ...): level; break
PriorityKeywordLevel(msg, withPattern) ==
    LET hit(level) == \/ ContainsAny(msg, PRIORITY_MAP(level))
                      \/ (withPattern /\ Adjacent(msg, <<"priority", "to", level>>))
        idx == {i \in DOMAIN PriorityLevels : hit(PriorityLevels[i])}
    IN  IF idx = {} THEN "" ELSE PriorityLevels[CHOOSE i \in idx : \A j \in idx : i <= j]

\* \b(mark\s+)?(as\s+)?complete(d)?\b|\bdone\b
SaysComplete(msg) == \E w \in {"complete", "completed", "done"} : HasWord(msg, w)

\* \b(incomplete|pending|undone|not\s+done)\b
SaysIncomplete(msg) ==
    \/ \E w \in {"incomplete", "pending", "undone"} : HasWord(msg, w)
    \/ Adjacent(msg, <<"not", "done">>)

\* the words of ws before the first of `stops`
UpTo(ws, stops) ==
    LET idx == {i \in DOMAIN ws : ws[i] \in stops}
    IN  IF idx = {} THEN ws ELSE SubSeq(ws, 1, (CHOOSE i \in idx : \A j \in idx : i <= j) - 1)

\* the words after the first "due date" that has words after it, without a
\* separator of `seps` between; <<>> when `needsSep` and there is none
AfterDueDate(msg, seps, needsSep) ==
    LET idx == {i \in 1..(Len(msg) - 2) : msg[i] = "due" /\ msg[i + 1] = "date"
                    /\ (needsSep => msg[i + 2] \in seps /\ i + 2 < Len(msg))}
        i0  == CHOOSE i \in idx : \A j \in idx : i <= j
        k   == IF msg[i0 + 2] \in seps /\ i0 + 2 < Len(msg) THEN i0 + 3 ELSE i0 + 2
    IN  IF idx = {} THEN <<>> ELSE SubSeq(msg, k, Len(msg))

\* intent_detector.py:1088-1102: due\s+date\s+(?:to|is|as|for)\s+(.+?) up to
\* "and", a field name or the end, "" without a match.  (No message of this
\* model has "deadline to ..." or a comma.)
DueDateText(msg) ==
    LET ws == UpTo(AfterDueDate(msg, {"to", "is", "as", "for"}, TRUE),
                   {"and", "description", "title", "priority", "mark", "incomplete",
                    "complete"})
    IN  IF ws = <<>> THEN "" ELSE Join(ws)

\* intent_detector.py:622-624: (?:due\s+date|deadline)\s*(?:to|is|as|:)?\s*(.+?)
\* up to the end
FallbackDueDateText(msg) ==
    LET ws == AfterDueDate(msg, {"to", "is", "as"}, FALSE)
    IN  IF ws = <<>> THEN "" ELSE Join(ws)

\* intent_detector.py:602-633, the fields one earlier user message adds to the
\* params found so far.  (No message of this model has the word "title" or
\* "description", so lines 604-607 and 625-628 add nothing here.)
FallbackFields(msg, params) ==
    LET level == PriorityKeywordLevel(msg, TRUE)
        prio == IF ~HasParam(params, "priority") /\ level # ""
                THEN {<<"priority", level>>} ELSE {}
        due ==  IF HasParam(params, "due_date") THEN {}
                ELSE IF RemovesDueDate(msg) THEN {<<"due_date", "NULL">>}
                ELSE IF ContainsAny(msg, DATE_KEYWORDS) \/ Adjacent(msg, <<"due", "date">>)
                     THEN (IF FallbackDueDateText(msg) # ""
                           THEN {<<"due_date", FallbackDueDateText(msg)>>}
                           ELSE IF Contains(msg, "tomorrow") THEN {<<"due_date", "tomorrow">>}
                           ELSE IF Contains(msg, "today") THEN {<<"due_date", "today">>}
                           ELSE {})
                ELSE {}
        done == IF HasParam(params, "completed") THEN {}
                ELSE IF SaysComplete(msg) /\ ~Contains(msg, "incomplete")
                     THEN {<<"completed", "true">>}
                ELSE IF SaysIncomplete(msg) THEN {<<"completed", "false">>}
                ELSE {}
    IN  params \cup prio \cup due \cup done

\* intent_detector.py:572-633: for prev_msg in reversed(history[-6:]), user
\* messages only.  (The two patterns that break out of the loop, lines
\* 577-601, need "task to" or "title to", which no message of UserMessages has.)
FallbackParams(h) ==
    LET msgs == RecentUserMessages(h, 6)
        F[i \in 0..Len(msgs)] ==
            IF i = 0 THEN {} ELSE FallbackFields(msgs[i], F[i - 1])
    IN  F[Len(msgs)]

\* intent_detector.py:538-569: the fields read from an "Update Task
\* Confirmation" text
TemplateParams(r) ==
    {it \in r.items : it[1] \in {"title", "priority", "description", "due_date"}}

\* intent_detector.py:503-516, confirmation_patterns (kya.*sure needs "sure")
IsAskingConfirmation(r) ==
    HasAny(r, {"sure", "confirm", "certain", "pakka", "should i", "shall i",
               "delete?", "update?", "complete?", "mark?"})

\* intent_detector.py:527-637, the operation read from the assistant's text
PendingOperation(r) ==
    IF HasAny(r, {"delete", "remove"}) THEN "delete"
    ELSE IF HasAny(r, {"update", "change", "edit"}) THEN "update"
    ELSE IF HasAny(r, {"incomplete", "not done", "pending", "undone"}) THEN "incomplete"
    ELSE IF HasAny(r, {"complete", "mark", "done"}) THEN "complete"
    ELSE "none"

\* intent_detector.py:479-649.  The result has operation "none" when the
\* function returns None.
CheckPendingConfirmation(h) ==
    LET r  == LastAssistant(h, 4)
        op == PendingOperation(r)
        fromTemplate ==
            IF HasAny(r, {"update task confirmation", "changes to be made"})
            THEN TemplateParams(r) ELSE {}
        params ==
            IF op # "update" THEN {}
            ELSE IF fromTemplate # {} THEN fromTemplate
            ELSE FallbackParams(h)
    IN  IF r # NoReply /\ IsAskingConfirmation(r) /\ op # "none"
        THEN Intent(op, TaskIdIn(r), TaskTitleIn(r), params, FALSE)
        ELSE NoIntent

\* intent_detector.py:763-785
GetContextTaskId(h) ==
    LET w == LastK(h, 4)
        idx == {i \in DOMAIN w : w[i].role = "assistant" /\ TaskIdIn(w[i].reply) # NoId}
    IN  IF idx = {} THEN NoId
        ELSE TaskIdIn(w[CHOOSE i \in idx : \A j \in idx : j <= i].reply)

\* intent_detector.py:262-274
UpdateFieldsPatterns ==
    {"what do you want to update", "what would you like to update",
     "tell me what you want to change", "you can update", "you can reply like",
     "kya update karna hai", "kya update kerna hai", "mein kya update",
     "what changes", "which changes"}

\* intent_detector.py:280-288
HasDetails(msg) ==
    \/ ContainsAny(msg, {"title", "priority", "deadline", "due_date", "description",
                         "remove", "complete", "completed", "incomplete", "pending",
                         "undone", "tomorrow", "today", "next"})
    \/ Adjacent(msg, <<"due", "date">>)
    \/ Adjacent(msg, <<"no", "deadline">>) \/ Adjacent(msg, <<"cancel", "deadline">>)

\* intent_detector.py:304-348, the fields read from a reply to "what would you
\* like to update".  (No message of UserMessages has the word "title" or
\* "description", or "due date to"; lines 307-309, 326-330, 337-342 add nothing.)
FollowUpParams(msg) ==
    LET explicit == {l \in {"high", "medium", "low"} : Adjacent(msg, <<"priority", "to", l>>)}
        level == IF explicit # {} THEN CHOOSE l \in explicit : TRUE
                 ELSE PriorityKeywordLevel(msg, FALSE)
        prio == IF level # "" THEN {<<"priority", level>>} ELSE {}
        due ==  IF RemovesDueDate(msg) THEN {<<"due_date", "NULL">>}
                ELSE IF Contains(msg, "tomorrow") THEN {<<"due_date", "tomorrow">>}
                ELSE IF Contains(msg, "today") THEN {<<"due_date", "today">>}
                ELSE {}
        done == IF (SaysIncomplete(msg) /\ ~Contains(msg, "complete"))
                THEN {<<"completed", "false">>}
                ELSE IF SaysComplete(msg) /\ ~Contains(msg, "incomplete")
                     THEN {<<"completed", "true">>}
                ELSE {}
    IN  prio \cup due \cup done

\* intent_detector.py:414-419
AskingPatterns ==
    {"which task", "specify which task", "specify the task", "task you want",
     "task you would like", "task to", "provide the name", "mention the task",
     "task number", "kaunsa task", "konsa task", "task batao"}

\* intent_detector.py:425-432, the operation read from the assistant's text
AskedOperation(r) ==
    IF HasAny(r, {"update", "change"}) THEN "update_ask"
    ELSE IF HasAny(r, {"delete", "remove"}) THEN "delete"
    ELSE IF Has(r, "complete") /\ ~Has(r, "incomplete") THEN "complete"
    ELSE IF HasAny(r, {"incomplete", "not done", "pending"}) THEN "incomplete"
    ELSE "none"

\* intent_detector.py:437-444: the message without a leading article or verb
\* and without everything from a later "task"/"wala" on; NoTitle when what is
\* left is shorter than two characters or a number
FollowUpTitle(msg) ==
    LET rest == IF Len(msg) > 1 /\ msg[1] \in {"the", "a", "an", "update", "delete",
                                                "remove", "complete", "mark"}
                THEN Tail(msg) ELSE msg
        cut  == {i \in 2..Len(rest) : rest[i] \in {"task", "tasks", "wala"}}
        kept == IF cut = {} THEN rest
                ELSE SubSeq(rest, 1, (CHOOSE i \in cut : \A j \in cut : i <= j) - 1)
    IN  IF kept = <<>> \/ (Len(kept) = 1 /\ IdOfWord(kept[1]) # NoId) THEN NoTitle
        ELSE Join(kept)

\* intent_detector.py:446-471
AskedIntent(op, title) ==
    IF op = "update_ask" THEN Intent("update_ask", NoId, title, {}, TRUE)
    ELSE IF op = "incomplete"
    THEN Intent("incomplete", NoId, title, {<<"completed", "false">>}, TRUE)
    ELSE Intent(op, NoId, title, {}, TRUE)

(***************************************************************************)
(* Intent classifier and per-operation detection                           *)
(***************************************************************************)

\* verb\s+(?:the\s+)?task
VerbTask(msg, verbs) ==
    \E v \in verbs : Adjacent(msg, <<v, "task">>) \/ Adjacent(msg, <<v, "the", "task">>)

\* mark\s+(?:task\s+)?.*?\s+as\s+(?:w1|w2|...): "as" at least two words after
\* the verb, followed by one of `targets`
VerbAs(msg, verb, targets) ==
    \E i, j \in DOMAIN msg :
        /\ msg[i] = verb /\ j >= i + 2 /\ msg[j] = "as"
        /\ \E t \in targets : /\ j + Len(t) <= Len(msg)
                              /\ \A k \in 1..Len(t) : msg[j + k] = t[k]

\* intent_detector.py:55-62
MatchesUpdate(msg) ==
    \/ VerbTask(msg, {"update", "change", "edit", "modify"})
    \/ (Len(msg) >= 4 /\ msg[1] = "update"
        /\ \E i \in 3..(Len(msg) - 1) : msg[i] = "to")

\* intent_detector.py:65-69
MatchesDelete(msg) ==
    \/ VerbTask(msg, {"delete", "remove"})
    \/ \E w \in {"karo", "kar", "do"} : Adjacent(msg, <<"khatam", w>>)

\* intent_detector.py:72-76
MatchesComplete(msg) ==
    \/ VerbAs(msg, "mark", {<<"done">>, <<"complete">>, <<"completed">>})
    \/ Adjacent(msg, <<"complete", "task">>) \/ Adjacent(msg, <<"incomplete", "task">>)
    \/ Adjacent(msg, <<"uncomplete", "task">>)
    \/ Adjacent(msg, <<"finish", "task">>) \/ Adjacent(msg, <<"finished", "task">>)

\* intent_detector.py:79-84
MatchesIncomplete(msg) ==
    \/ VerbAs(msg, "mark", {<<"incomplete">>, <<"not", "done">>, <<"pending">>, <<"undone">>})
    \/ Adjacent(msg, <<"unmark", "task">>) \/ Adjacent(msg, <<"uncomplete", "task">>)
    \/ \E i, j \in DOMAIN msg :
          /\ msg[i] = "set" /\ j >= i + 2 /\ j < Len(msg) /\ msg[j] = "to"
          /\ msg[j + 1] \in {"incomplete", "pending"}

\* intent_detector.py:87-93
MatchesAdd(msg) ==
    \E v \in {"add", "create", "new"} :
        \E mid \in {<<>>, <<"a">>, <<"new">>, <<"a", "new">>} :
            Adjacent(msg, <<v>> \o mid \o <<"task">>)

\* intent_detector.py:96-105
MatchesList(msg) ==
    \/ \E v \in {"show", "list", "display", "view", "get"} :
          \E mid \in {<<>>, <<"all">>, <<"my">>, <<"all", "my">>} :
              \E t \in {"tasks", "task"} :
                  /\ Adjacent(msg, <<v>> \o mid \o <<t>>)
                  /\ (v \in {"view", "get"} => t = "tasks")
    \/ Adjacent(msg, <<"what", "tasks", "do", "i", "have">>)

\* intent_detector.py:361-368
AddTitlePatterns ==
    {"what's the title", "what is the title", "task title", "title of the task",
     "title you'd like to add", "title you would like to add"}

\* intent_detector.py:391-400, ADD_COMMAND_PHRASES and OTHER_COMMAND_PHRASES
CommandPhrases ==
    { <<"add", "task">>, <<"create", "task">>, <<"new", "task">>,
      <<"add", "a", "task">>, <<"create", "a", "task">>, <<"new", "a", "task">>,
      <<"add", "new", "task">>, <<"create", "new", "task">>,
      <<"delete", "task">>, <<"delete", "the", "task">>, <<"remove", "task">>,
      <<"remove", "the", "task">>, <<"update", "task">>, <<"update", "the", "task">>,
      <<"show", "all", "tasks">>, <<"show", "task", "list">>, <<"list", "tasks">>,
      <<"list", "my", "tasks">>, <<"mark", "complete">>, <<"mark", "as", "complete">> }

\* intent_detector.py:371-412: the reply to the question for the title of a
\* task to add.  isCommand is the test of lines 373-381, the message matching
\* a delete, update or list pattern.  (No message of this model starts with
\* "title is", "it is" or another prefix of lines 385-387, and every message
\* has two characters or more.)
AddTitleFollowUp(msg, isCommand) ==
    IF isCommand \/ msg \in CommandPhrases THEN NoIntent
    ELSE Intent("add", NoId, NoTitle, {<<"title", Join(msg)>>}, FALSE)

\* intent_detector.py:373-381
IsOtherCommand(msg) == MatchesDelete(msg) \/ MatchesUpdate(msg) \/ MatchesList(msg)

\* intent_detector.py:234-476.  Case A (258-358) is the reply to the
\* "what would you like to update" prompt, case B (360-412) the reply to the
\* question for the title of a task to add, case C (413-473) the reply to a
\* question that asks which task is meant.
CheckFollowUpResponse(msg, h) ==
    LET r  == LastAssistant(h, 3)
        id == GetContextTaskId(h)
    IN  IF r # NoReply /\ HasAny(r, UpdateFieldsPatterns) /\ HasDetails(msg) /\ id # NoId
        THEN Intent("update", id, NoTitle, FollowUpParams(msg), TRUE)
        ELSE IF r # NoReply /\ HasAny(r, AddTitlePatterns)
        THEN AddTitleFollowUp(msg, IsOtherCommand(msg))
        ELSE IF r # NoReply /\ HasAny(r, AskingPatterns) /\ AskedOperation(r) # "none"
                /\ FollowUpTitle(msg) # NoTitle
        THEN AskedIntent(AskedOperation(r), FollowUpTitle(msg))
        ELSE NoIntent

\* intent_detector.py:657-668, TASK_ID_PATTERN: the first "task N" or "id N"
ExtractTaskId(msg) ==
    LET idx == {i \in 1..(Len(msg) - 1) :
                    msg[i] \in {"task", "id"} /\ IdOfWord(msg[i + 1]) # NoId}
    IN  IF idx = {} THEN NoId
        ELSE IdOfWord(msg[(CHOOSE i \in idx : \A j \in idx : i <= j) + 1])

\* intent_detector.py:671-760.  Every pattern needs words that are not digits
\* after "task" (or around it); a message that ends with "task" names no title.
ExtractTaskTitle(msg) ==
    LET idx == {i \in DOMAIN msg : msg[i] = "task"}
        i0  == CHOOSE i \in idx : \A j \in idx : i <= j
    IN  IF idx = {} \/ i0 = Len(msg) THEN NoTitle
        ELSE Join(SubSeq(msg, i0 + 1, Len(msg)))

\* intent_detector.py:1011-1026
HasUpdateDetails(msg) ==
    \/ ContainsAny(msg, {"priority", "deadline", "due_date", "description"})
    \/ Adjacent(msg, <<"due", "date">>)
    \/ (Contains(msg, "title") /\ Contains(msg, "to"))

\* intent_detector.py:1060-1132, the fields of an update message.  (No message
\* of UserMessages has the word "title" or "description" or a date after
\* "due date to"; lines 1042-1058, 1088-1102, 1110-1125 add nothing.)
UpdateParams(msg) ==
    LET explicit == {l \in {"high", "medium", "low"} :
                        \E sep \in {"to", "is", "as"} : Adjacent(msg, <<"priority", sep, l>>)}
        level == IF explicit # {} THEN CHOOSE l \in explicit : TRUE
                 ELSE PriorityKeywordLevel(msg, FALSE)
        prio == IF level # "" THEN {<<"priority", level>>} ELSE {}
        due ==  IF RemovesDueDate(msg) THEN {<<"due_date", "NULL">>}
                ELSE IF ContainsAny(msg, DATE_KEYWORDS) \/ Adjacent(msg, <<"due", "date">>)
                     THEN (IF DueDateText(msg) # "" THEN {<<"due_date", DueDateText(msg)>>}
                           ELSE IF Contains(msg, "tomorrow") THEN {<<"due_date", "tomorrow">>}
                           ELSE IF Contains(msg, "today") THEN {<<"due_date", "today">>}
                           ELSE {})
                ELSE {}
        done == IF SaysIncomplete(msg) /\ ~Contains(msg, "complete")
                THEN {<<"completed", "false">>}
                ELSE IF SaysComplete(msg) /\ ~Contains(msg, "incomplete")
                     THEN {<<"completed", "true">>}
                ELSE {}
    IN  prio \cup due \cup done

\* intent_detector.py:814-1146.  Lines 846-988 resolve a task named by title
\* ("update X to Y", a title given after "which task?"); a message of
\* UserMessages or LookupMessages that asks for an update names its task by
\* id or names none.
DetectUpdateIntent(msg, h) ==
    LET id == ExtractTaskId(msg)
    IN  IF msg \in {<<"update", "task">>, <<"update", "the", "task">>}
        THEN Intent("update_ask", NoId, NoTitle, {}, TRUE)
        ELSE IF id = NoId
        THEN Intent("update_ask", NoId, NoTitle, {}, TRUE)
        ELSE IF ~HasUpdateDetails(msg)
        THEN Intent("update_ask", id, NoTitle, {}, TRUE)
        ELSE Intent("update", id, NoTitle, UpdateParams(msg), TRUE)

\* intent_detector.py:1149-1241.  Lines 1166-1221 read the message as the
\* answer to a "which task?" question of the assistant; they are entered only
\* by a message without "task N" and without a title, after an assistant text
\* with such a phrase.  The texts with such a phrase are chat.py's
\* title-search texts, and a message after one of them is read by
\* CheckFollowUpResponse before this function is called.
DetectDeleteIntent(msg, h) ==
    LET id    == ExtractTaskId(msg)
        title == IF id = NoId THEN ExtractTaskTitle(msg) ELSE NoTitle
    IN  IF id = NoId /\ title = NoTitle
        THEN Intent("delete_ask", NoId, NoTitle, {}, TRUE)
        ELSE Intent("delete", id, title, {}, TRUE)

\* intent_detector.py:1255-1294, the title patterns of a completion.  In a
\* message that ends with "complete task" the second pattern,
\* complete\s+(?:the\s+)?(.+?)(?:\s+task|$), captures the word "task" itself.
\* (The first and third pattern need "mark ... as complete" around a title;
\* the messages of this model with "mark" name their task by id.)
CompletePhrase(msg) ==
    IF Len(msg) >= 2 /\ msg[Len(msg)] = "task"
          /\ \/ msg[Len(msg) - 1] = "complete"
             \/ (Len(msg) >= 3 /\ msg[Len(msg) - 1] = "the" /\ msg[Len(msg) - 2] = "complete")
    THEN "task" ELSE NoTitle

\* intent_detector.py:1244-1318
DetectCompleteIntent(msg, h) ==
    LET id    == ExtractTaskId(msg)
        named == IF id = NoId THEN ExtractTaskTitle(msg) ELSE NoTitle
        title == IF id = NoId /\ named = NoTitle THEN CompletePhrase(msg) ELSE named
        ctx   == IF id = NoId /\ title = NoTitle THEN GetContextTaskId(h) ELSE id
    IN  IF ctx = NoId /\ title = NoTitle
        THEN Intent("complete_ask", NoId, NoTitle, {}, TRUE)
        ELSE Intent("complete", ctx, title, {}, TRUE)

\* intent_detector.py:1321-1397
DetectIncompleteIntent(msg, h) ==
    LET id    == ExtractTaskId(msg)
        title == IF id = NoId THEN ExtractTaskTitle(msg) ELSE NoTitle
        ctx   == IF id = NoId /\ title = NoTitle THEN GetContextTaskId(h) ELSE id
    IN  IF ctx = NoId /\ title = NoTitle
        THEN Intent("incomplete_ask", NoId, NoTitle, {<<"completed", "false">>}, TRUE)
        ELSE Intent("incomplete", ctx, title, {<<"completed", "false">>}, TRUE)

\* intent_detector.py:1400-1476: the title is the text after "task", without a
\* leading "to"/"for"
DetectAddIntent(msg, h) ==
    LET idx  == {i \in DOMAIN msg : msg[i] = "task"}
        i0   == CHOOSE i \in idx : \A j \in idx : i <= j
        rest == SubSeq(msg, i0 + 1, Len(msg))
        text == IF rest # <<>> /\ rest[1] \in {"to", "for"} THEN Tail(rest) ELSE rest
    IN  IF text = <<>> THEN Intent("add", NoId, NoTitle, {}, FALSE)
        ELSE Intent("add", NoId, NoTitle, {<<"title", Join(text)>>}, FALSE)

\* a listing that is asked about first
AskBeforeListing(msg, h) ==
    Intent("list", NoId, NoTitle, {<<"status", "all">>}, TRUE)

\* intent_detector.py:1479-1503
DetectListIntent(msg, h) ==
    LET status == IF ContainsAny(msg, {"completed", "done"}) THEN "completed"
                  ELSE IF ContainsAny(msg, {"incomplete", "pending", "active"}) THEN "active"
                  ELSE "all"
    IN  Intent("list", NoId, NoTitle, {<<"status", status>>}, FALSE)

\* a classifier that tries the trigger groups in the reverse order
LastGroupFirst(msg, h) ==
    IF MatchesList(msg) THEN DetectListIntent(msg, h)
    ELSE IF MatchesAdd(msg) THEN DetectAddIntent(msg, h)
    ELSE IF MatchesIncomplete(msg) THEN DetectIncompleteIntent(msg, h)
    ELSE IF MatchesComplete(msg) THEN DetectCompleteIntent(msg, h)
    ELSE IF MatchesDelete(msg) THEN DetectDeleteIntent(msg, h)
    ELSE IF MatchesUpdate(msg) THEN DetectUpdateIntent(msg, h)
    ELSE NoIntent

\* intent_detector.py:189-213, steps 2 to 7
Classify(msg, h) ==
    IF MatchesUpdate(msg) THEN DetectUpdateIntent(msg, h)
    ELSE IF MatchesDelete(msg) THEN DetectDeleteIntent(msg, h)
    ELSE IF MatchesComplete(msg) THEN DetectCompleteIntent(msg, h)
    ELSE IF MatchesIncomplete(msg) THEN DetectIncompleteIntent(msg, h)
    ELSE IF MatchesAdd(msg) THEN DetectAddIntent(msg, h)
    ELSE IF MatchesList(msg) THEN DetectListIntent(msg, h)
    ELSE NoIntent

\* intent_detector.py:143-213: the reply to a pending confirmation, then the
\* follow-up, then the classifier.  (Step 1.75, lines 172-187, needs a message
\* that starts with "title is"/"task title:"; UserMessages has none.)
Resolve(msg, h, pending, followUp) ==
    IF pending # NoIntent /\ IsConfirmationResponse(msg, TRUE) THEN pending
    ELSE IF pending # NoIntent /\ IsConfirmationResponse(msg, FALSE) THEN NoIntent
    ELSE IF followUp # NoIntent THEN followUp
    ELSE Classify(msg, h)

\* intent_detector.py:126-213
DetectIntent(msg, h) ==
    Resolve(msg, h, CheckPendingConfirmation(h), CheckFollowUpResponse(msg, h))

(***************************************************************************)
(* Task store (mcp_tools/*.py)                                             *)
(***************************************************************************)

Task(id, user_id, title, priority, completed, due_date) ==
    [id |-> id, user_id |-> user_id, title |-> title, priority |-> priority,
     completed |-> completed, due_date |-> due_date]

\* a tool call: params is task_id plus `fields`; user_id is "" when the
\* params carry no user_id key
Call(tool, task_id, fields, user_id) ==
    [tool |-> tool, task_id |-> task_id, fields |-> fields, user_id |-> user_id]

FieldOf(fields, name) ==
    IF HasParam(fields, name) THEN (CHOOSE p \in fields : p[1] = name)[2] ELSE "NULL"

\* the query without its user_id condition
OwnedByAnyone(ts, user_id, task_id) == {t \in ts : t.id = task_id}

\* select(Task).where(Task.id == task_id, Task.user_id == user_id)
Owned(ts, user_id, task_id) == {t \in ts : t.id = task_id /\ t.user_id = user_id}

\* what one executed call leaves behind: the store, whether the store
\* function was entered, and the entry of executed_tools / tool_errors
Outcome(ts, nid, called, error, title, priority) ==
    [tasks |-> ts, next_id |-> nid, called |-> called, error |-> error,
     title |-> title, priority |-> priority]

\* mcp_tools/delete_task.py:63-149
delete_task(ts, nid, user_id, task_id) ==
    LET found == Owned(ts, user_id, task_id)
        t     == CHOOSE x \in found : TRUE
    IN  IF found = {} THEN Outcome(ts, nid, TRUE, "Task not found", NoTitle, "")
        ELSE Outcome(ts \ {t}, nid, TRUE, "", t.title, t.priority)

\* complete_task of mcp_tools/complete_task.py: marks the user's task
\* completed, "Task not found" otherwise
complete_task(ts, nid, user_id, task_id) ==
    LET found == Owned(ts, user_id, task_id)
        t     == CHOOSE x \in found : TRUE
    IN  IF found = {} THEN Outcome(ts, nid, TRUE, "Task not found", NoTitle, "")
        ELSE Outcome((ts \ {t}) \cup {[t EXCEPT !.completed = TRUE]}, nid, TRUE,
                     "", t.title, t.priority)

\* mcp_tools/update_task.py:94-178.  UpdateTaskParams (17-47) has the fields
\* title, description and priority only: completed and due_date of the call
\* are dropped when the params object is built.
update_task(ts, nid, user_id, task_id, fields) ==
    LET found == Owned(ts, user_id, task_id)
        t     == CHOOSE x \in found : TRUE
        title == FieldOf(fields, "title")
        prio  == FieldOf(fields, "priority")
        new   == [t EXCEPT !.title    = IF title # "NULL" THEN title ELSE @,
                           !.priority = IF prio # "NULL" THEN prio ELSE @]
    IN  IF title = "NULL" /\ prio = "NULL" /\ FieldOf(fields, "description") = "NULL"
        THEN Outcome(ts, nid, TRUE, "At least one field must be provided", NoTitle, "")
        ELSE IF found = {} THEN Outcome(ts, nid, TRUE, "Task not found", NoTitle, "")
        ELSE Outcome((ts \ {t}) \cup {new}, nid, TRUE, "", new.title, new.priority)

\* mcp_tools/add_task.py:103-180
add_task(ts, nid, user_id, fields) ==
    LET prio == IF HasParam(fields, "priority") THEN FieldOf(fields, "priority") ELSE "medium"
        t    == Task(nid, user_id, FieldOf(fields, "title"), prio, FALSE, "NULL")
    IN  Outcome(ts \cup {t}, nid + 1, TRUE, "", t.title, prio)

\* mcp_tools/list_tasks.py:108-170
list_tasks(ts, user_id) == {t \in ts : t.user_id = user_id}

\* thefuzz's fuzz.token_set_ratio(query, title) for the phrases and titles of
\* this model: both texts are split into words; when every word of one text
\* is a word of the other the score is 100, otherwise it is
\* round(200 * lcs / (len(a) + len(b))) of the two remainders joined to the
\* common words ("milks" and "buy milk": lcs 4 of 5 + 8 characters, 62).
\* ("milks" and "milk": lcs 4 of 5 + 4 characters, 89.)
\* Every pair not listed scores below 40.
token_set_ratio(query, title) ==
    CASE query = title                                -> 100
      [] query = "buy milk" /\ title = "milk"         -> 100
      [] query = "milks" /\ title = "milk"            -> 89
      [] query = "milks" /\ title = "buy milk"        -> 62
      [] query = "milks" /\ title = "confirm flight"  -> 21
      [] query = "jog"   /\ title = "confirm flight"  -> 24
      [] query = "rent"  /\ title = "pay rent"        -> 100
      [] query = "rent"  /\ title = "confirm flight"  -> 22
      [] OTHER                                        -> 0

\* the pair p put into the list s of pairs, which is sorted by score from the
\* highest down, behind the pairs that score as much or more
InsertByScore(p, s) ==
    LET k == Cardinality({i \in DOMAIN s : s[i][2] >= p[2]})
    IN  SubSeq(s, 1, k) \o <<p>> \o SubSeq(s, k + 1, Len(s))

\* the choices with their scores, in the order of the list
InListOrder(query, choices) ==
    [i \in DOMAIN choices |-> <<choices[i], token_set_ratio(query, choices[i])>>]

\* thefuzz's process.extract(query, choices, scorer=fuzz.token_set_ratio,
\* limit=None), called at utils.py:102-107: every choice with its score, as
\* <<choice, score>> pairs sorted by score from the highest down
process_extract(query, choices) ==
    LET F[i \in 0..Len(choices)] ==
            IF i = 0 THEN <<>>
            ELSE InsertByScore(<<choices[i], token_set_ratio(query, choices[i])>>, F[i - 1])
    IN  F[Len(choices)]

\* ai_agent/utils.py:79-110, the matches as a list of <<title, score>> pairs
fuzzy_match_task_title(query, task_titles, threshold) ==
    IF query = NoTitle \/ task_titles = <<>> THEN <<>>
    ELSE SelectSeq(process_extract(query, task_titles), LAMBDA m : m[2] >= threshold)

\* find_task.py:122-123: list(task_map.keys()), each title once, in the order
\* the rows came in (by id)
RECURSIVE TitlesOf(_)
TitlesOf(ts) ==
    IF ts = {} THEN <<>>
    ELSE LET t == CHOOSE x \in ts : \A y \in ts : x.id <= y.id
         IN  <<t.title>> \o TitlesOf({y \in ts : y.title # t.title})

\* find_task returning None
NoTask == [task_id |-> NoId, title |-> NoTitle, confidence_score |-> 0]

\* a search that returns the last of the matches
LastMatch(ts, user_id, title) ==
    LET mine    == {t \in ts : t.user_id = user_id}
        matches == fuzzy_match_task_title(title, TitlesOf(mine), 60)
        best    == matches[Len(matches)]
        task    == CHOOSE t \in mine : t.title = best[1]
                                       /\ \A u \in mine : u.title = best[1] => u.id <= t.id
    IN  IF mine = {} \/ matches = <<>> THEN NoTask
        ELSE [task_id |-> task.id, title |-> task.title, confidence_score |-> best[2]]

\* mcp_tools/find_task.py:77-151: the best match among the user's own tasks.
\* (task_map keeps one task per title, the last the query returned, and
\* matches[0] is the first of the best scores; no search of this model meets
\* two tasks of one user with the same title.)
find_task(ts, user_id, title) ==
    LET mine    == {t \in ts : t.user_id = user_id}
        matches == fuzzy_match_task_title(title, TitlesOf(mine), 60)
        best    == matches[1]
        task    == CHOOSE t \in mine : t.title = best[1]
                                       /\ \A u \in mine : u.title = best[1] => u.id <= t.id
    IN  IF mine = {} \/ matches = <<>> THEN NoTask
        ELSE [task_id |-> task.id, title |-> task.title, confidence_score |-> best[2]]

(***************************************************************************)
(* Tool execution of one chat turn (routes/chat.py:1101-1519)              *)
(***************************************************************************)

\* chat.py:1117-1118: json.dumps of the params without user_id, with the name
Signature(c) == [tool |-> c.tool, task_id |-> c.task_id, fields |-> c.fields]

\* the loop without seen_tool_calls
KeepDuplicates(calls) == calls

\* chat.py:1121-1128: a call whose signature was seen earlier is skipped
Deduplicate(calls) ==
    LET F[i \in 0..Len(calls)] ==
            IF i = 0 THEN <<>>
            ELSE IF \E j \in 1..(i - 1) : Signature(calls[j]) = Signature(calls[i])
                 THEN F[i - 1]
                 ELSE Append(F[i - 1], calls[i])
    IN  F[Len(calls)]

\* chat.py:1130-1410, one branch per tool.  update_task (1276-1357): after
\* the store call has committed, line 1335 reads result.due_date, which
\* UpdateTaskResult (update_task.py:61-78) does not have; the AttributeError
\* is caught at 1340 and reported as the call's error.
ExecuteTool(ts, nid, user_id, c) ==
    CASE c.tool = "delete_task"   -> delete_task(ts, nid, user_id, c.task_id)
      [] c.tool = "complete_task" -> complete_task(ts, nid, user_id, c.task_id)
      [] c.tool = "update_task"   ->
            LET o == update_task(ts, nid, user_id, c.task_id, c.fields)
            IN  IF o.error = "" THEN [o EXCEPT !.error = "no attribute due_date"] ELSE o
      [] c.tool = "add_task" ->
            IF FieldOf(c.fields, "title") = "NULL"
            THEN Outcome(ts, nid, FALSE, "Task title is required", NoTitle, "")
            ELSE add_task(ts, nid, user_id, c.fields)
      [] OTHER -> Outcome(ts, nid, TRUE, "", NoTitle, "")

\* chat.py:1110-1519: the calls in order, each on the store the earlier ones
\* left.  The result is the final store and the outcome of every call.
ExecuteAll(ts, nid, user_id, calls) ==
    LET F[i \in 0..Len(calls)] ==
            IF i = 0 THEN [tasks |-> ts, next_id |-> nid, outcomes |-> <<>>]
            ELSE LET prev == F[i - 1]
                     o    == ExecuteTool(prev.tasks, prev.next_id, user_id, calls[i])
                     seen == IF calls[i].tool = "list_tasks"
                             THEN {t.title : t \in list_tasks(prev.tasks, user_id)}
                             ELSE {}
                 IN  [tasks |-> o.tasks, next_id |-> o.next_id,
                      outcomes |-> Append(prev.outcomes,
                                          [call |-> calls[i], called |-> o.called,
                                           error |-> o.error, title |-> o.title,
                                           priority |-> o.priority, listing |-> seen])]
    IN  F[Len(calls)]

(***************************************************************************)
(* The LLM runner (ai_agent/runner.py)                                     *)
(***************************************************************************)

\* What the model may answer: its text and the tool calls it proposes.  The
\* text "chat" is a text with none of the detector's keywords, "" no text.
Completion(failed, text, calls) == [failed |-> failed, text |-> text, calls |-> calls]

Completions ==
    { Completion(TRUE, "", <<>>),
      Completion(FALSE, "chat", <<>>),
      Completion(FALSE, "", << Call("delete_task", 1, {}, ""),
                               Call("delete_task", 1, {}, User),
                               Call("delete_task", 2, {}, "") >>),
      Completion(FALSE, "chat", << Call("add_task", NoId, {<<"title", "buy milk">>}, "") >>),
      Completion(FALSE, "", << Call("list_tasks", NoId, {<<"status", "all">>}, "") >>) }

\* ai_agent/utils.py:229-261
SuggestPriority(title) ==
    CASE title = "urgent report" -> "high"
      [] OTHER                   -> "medium"

\* runner.py:33-98: add_task without a priority gets the one its title suggests
EnhanceToolParameters(c) ==
    IF c.tool = "add_task" /\ ~HasParam(c.fields, "priority")
          /\ SuggestPriority(FieldOf(c.fields, "title")) # "medium"
    THEN [c EXCEPT !.fields = @ \cup {<<"priority", SuggestPriority(FieldOf(c.fields, "title"))>>}]
    ELSE c

\* runner.py:253-274: the text generated when the model gives none
FallbackText(c) ==
    CASE c.tool = "add_task"      -> Reply("llm", "gen_add", NoId, FieldOf(c.fields, "title"), {})
      [] c.tool = "list_tasks"    -> Reply("llm", "gen_list", NoId, NoTitle, {})
      [] c.tool = "complete_task" -> Reply("llm", "gen_complete", c.task_id, NoTitle, {})
      [] c.tool = "update_task"   -> Reply("llm", "gen_update", c.task_id, NoTitle, {})
      [] c.tool = "delete_task"   -> Reply("llm", "gen_delete", c.task_id, NoTitle, {})
      [] OTHER                    -> Reply("llm", "gen_other", NoId, NoTitle, {})

\* runner.py:144-321: AgentResponse(response, tool_calls)
RunAgent(completion) ==
    LET calls == [i \in DOMAIN completion.calls |-> EnhanceToolParameters(completion.calls[i])]
    IN  IF completion.failed
        THEN [response |-> Reply("llm", "apology", NoId, NoTitle, {}), tool_calls |-> <<>>]
        ELSE IF completion.text = "" /\ calls # <<>>
        THEN [response |-> FallbackText(calls[1]), tool_calls |-> calls]
        ELSE [response |-> Reply("llm", completion.text, NoId, NoTitle, {}), tool_calls |-> calls]

(***************************************************************************)
(* The chat turn (routes/chat.py:336-1627)                                 *)
(***************************************************************************)

\* conversation_service.py:81-123, called with limit=50 at chat.py:337-341
HistoryLimit == 50

\* chat.py:365-378
IsCancellation(msg, h) ==
    /\ HasAny(LastAssistant(h, 3), {"sure", "confirm", "cancel"})
    /\ ContainsAny(msg, {"no", "nahi", "cancel", "na", "nope", "not"})
    /\ Len(msg) <= ShortReplyWords

\* chat.py:479-494, the lines of the update confirmation
Changes(params) ==
    LET shown == {p \in params :
                    \/ p[1] \in {"title", "priority", "description", "completed"} /\ p[2] # "NULL"
                    \/ p[1] = "due_date"}
    IN  IF shown = {} THEN {<<"none", "">>} ELSE shown

\* chat.py:419-434, task_details: " #id" for an intent with a task id; for one
\* with a title only " #id ('title')" of the task find_task returns for it,
\* and the quoted title of the intent when it returns none
TaskDetails(ts, intent) ==
    LET found == find_task(ts, User, intent.task_title)
    IN  IF intent.task_id # NoId THEN [id |-> intent.task_id, title |-> NoTitle]
        ELSE IF intent.task_title = NoTitle THEN [id |-> NoId, title |-> NoTitle]
        ELSE IF found # NoTask THEN [id |-> found.task_id, title |-> found.title]
        ELSE [id |-> NoId, title |-> intent.task_title]

\* chat.py:436-517
ConfirmationMessage(ts, intent) ==
    LET task == TaskDetails(ts, intent)
    IN  CASE intent.operation \in {"delete", "complete", "incomplete"} ->
                Reply("confirm", intent.operation, task.id, task.title, {})
          [] intent.operation = "update" ->
                Reply("confirm", "update", task.id, task.title, Changes(intent.params))
          [] intent.operation = "update_ask" ->
                Reply("update_ask", "", task.id, task.title, {})
          [] OTHER -> Reply("generic", "", NoId, NoTitle, {})

\* utils.py:52-55, datetime.fromisoformat: no due-date text of this model is
\* an ISO timestamp
FromIsoFormat(date_str) == "NULL"

\* utils.py:58-64, dateutil's parser.parse(date_str, fuzzy=True): it knows
\* dates written with numbers and month or weekday names, and raises
\* ParserError for a text without any
DateutilParse(date_str) ==
    CASE date_str = "friday" -> "friday"
      [] OTHER               -> "NULL"

\* utils.py:68, parsedatetime's Calendar.parse: the time it read and status 1
\* (a date), or the current time and status 0 when it read nothing
CalParse(date_str) ==
    CASE date_str = "tomorrow" -> [time |-> "tomorrow", status |-> 1]
      [] date_str = "today"    -> [time |-> "today", status |-> 1]
      [] OTHER                 -> [time |-> "now", status |-> 0]

\* a parser that takes the calendar's answer whatever its status
CurrentTimeOnFailure(date_str) ==
    IF date_str = "" THEN "NULL"
    ELSE IF FromIsoFormat(date_str) # "NULL" THEN FromIsoFormat(date_str)
    ELSE IF DateutilParse(date_str) # "NULL" THEN DateutilParse(date_str)
    ELSE CalParse(date_str).time

\* utils.py:24-76: the timestamp of a text, "NULL" (None) when the ISO
\* format, dateutil and parsedatetime all fail
parse_natural_date(date_str) ==
    IF date_str = "" THEN "NULL"
    ELSE IF FromIsoFormat(date_str) # "NULL" THEN FromIsoFormat(date_str)
    ELSE IF DateutilParse(date_str) # "NULL" THEN DateutilParse(date_str)
    ELSE IF CalParse(date_str).status \in {1, 2, 3} THEN CalParse(date_str).time
    ELSE "NULL"

\* chat.py:676-703: title, description and priority when given; due_date
\* None as it is (it removes the date), a text as the timestamp it is parsed
\* to and not at all when it cannot be parsed; `completed` is not copied
UpdateFields(params) ==
    {p \in params : p[1] \in {"title", "description", "priority"} /\ p[2] # "NULL"}
        \cup {p \in params : p[1] = "due_date" /\ p[2] = "NULL"}
        \cup {<<"due_date", parse_natural_date(p[2])>> :
                p \in {q \in params : /\ q[1] = "due_date" /\ q[2] # "NULL"
                                       /\ parse_natural_date(q[2]) # "NULL"}}

\* the operation of the branch of chat.py:547-1066 an intent enters, "" when
\* it enters none (chat.py:549, 793, 886, 976)
ForcedBranch(intent) ==
    IF intent.operation \in {"update", "update_ask"} /\ intent.params # {} THEN "update"
    ELSE IF intent.operation \in {"delete", "complete", "incomplete"} THEN intent.operation
    ELSE ""

\* chat.py:554-636 and its copies 797-872, 890-962, 980-1052: the target of
\* an intent that names its task by title.  `reply` is the text of the early
\* return: the question about a match below 80, or the user's task list when
\* nothing matches and the list is not empty.
TitleSearch(ts, intent) ==
    LET found == find_task(ts, User, intent.task_title)
        mine  == list_tasks(ts, User)
    IN  IF ForcedBranch(intent) = "" \/ intent.task_id # NoId \/ intent.task_title = NoTitle
        THEN [task_id |-> intent.task_id, reply |-> NoReply]
        ELSE IF found # NoTask /\ found.confidence_score < 80
        THEN [task_id |-> NoId,
              reply |-> Reply("candidate", ForcedBranch(intent), found.task_id, found.title,
                              {<<"query", intent.task_title>>})]
        ELSE IF found # NoTask THEN [task_id |-> found.task_id, reply |-> NoReply]
        ELSE IF mine # {}
        THEN [task_id |-> NoId,
              reply |-> Reply("not_found", "", NoId, intent.task_title,
                              {<<"task", t.title>> : t \in mine})]
        ELSE [task_id |-> NoId, reply |-> NoReply]

\* chat.py:646, the text after "update task" in a user message, up to a word
\* that starts a field; NoTitle when it has at most two characters
UpdateTaskPhrase(msg) ==
    LET idx  == {i \in 1..(Len(msg) - 1) :
                    /\ msg[i] = "update"
                    /\ \/ msg[i + 1] = "task"
                       \/ (i + 2 <= Len(msg) /\ msg[i + 1] = "the" /\ msg[i + 2] = "task")}
        i0   == CHOOSE i \in idx : \A j \in idx : i <= j
        from == IF msg[i0 + 1] = "task" THEN i0 + 2 ELSE i0 + 3
        stop == {i \in (from + 1)..Len(msg) : msg[i] \in {"update", "title", "priority", "deadline"}}
        to   == IF stop = {} THEN Len(msg) ELSE (CHOOSE i \in stop : \A j \in stop : i <= j) - 1
        text == SubSeq(msg, from, to)
    IN  IF idx = {} \/ text = <<>> \/ (Len(text) = 1 /\ IdOfWord(text[1]) # NoId) THEN NoTitle
        ELSE Join(text)

\* chat.py:640-672: without a task id, the first message of the last ten, from
\* the most recent back, that names a title find_task finds a task for
ContextSearch(ts, h) ==
    LET w == LastK(h, 10)
        title(i) == IF w[i].role = "user" THEN UpdateTaskPhrase(w[i].words)
                    ELSE TaskTitleIn(w[i].reply)
        idx == {i \in DOMAIN w : find_task(ts, User, title(i)) # NoTask}
    IN  IF idx = {} THEN NoId
        ELSE find_task(ts, User, title(CHOOSE i \in idx : \A j \in idx : j <= i)).task_id

\* chat.py:547-1066, forced_tool_calls for an intent that needs no
\* confirmation and whose title search, if any, ended in no reply
ForcedToolCalls(ts, h, intent) ==
    LET found   == TitleSearch(ts, intent).task_id
        task_id == IF found = NoId /\ ForcedBranch(intent) = "update"
                   THEN ContextSearch(ts, h) ELSE found
    IN  IF task_id = NoId THEN <<>>
        ELSE CASE ForcedBranch(intent) = "update" /\ UpdateFields(intent.params) # {} ->
                    << Call("update_task", task_id, UpdateFields(intent.params), "") >>
               [] ForcedBranch(intent) = "delete"   -> << Call("delete_task", task_id, {}, "") >>
               [] ForcedBranch(intent) = "complete" -> << Call("complete_task", task_id, {}, "") >>
               [] ForcedBranch(intent) = "incomplete" ->
                    << Call("update_task", task_id, {<<"completed", "false">>}, "") >>
               [] OTHER -> <<>>

\* chat.py:1074-1081
ConfirmedOperations == {"update_task", "delete_task", "complete_task"}

SkipAiAgent(forced) ==
    forced # <<>> /\ \A i \in DOMAIN forced : forced[i].tool \in ConfirmedOperations

\* one run of ExecuteAll's outcome as chat.py records it: add_task's failure
\* goes to tool_errors only (1178-1204), every other call to executed_tools
InExecutedTools(o) == ~(o.call.tool = "add_task" /\ o.error # "")

\* the elements of seq at the indices in S, in order
Pick(seq, S) ==
    LET F[i \in 0..Len(seq)] ==
            IF i = 0 THEN <<>>
            ELSE IF i \in S THEN Append(F[i - 1], seq[i]) ELSE F[i - 1]
    IN  F[Len(seq)]

\* executed_tools and tool_errors of chat.py:1103-1104 after the loop
ExecutedTools(os) == Pick(os, {i \in DOMAIN os : InExecutedTools(os[i])})

ToolErrors(os) == Pick(os, {i \in DOMAIN os : os[i].error # ""})

\* chat.py:1540-1568, the line for one successful forced call
ResultLine(o) ==
    LET shown == {p \in o.call.fields : p[1] \in {"due_date", "completed", "title"}}
                 \cup (IF HasParam(o.call.fields, "priority")
                       THEN {<<"priority", o.priority>>} ELSE {})
    IN  Reply("result", o.call.tool, o.call.task_id, o.title,
              IF o.call.tool = "update_task" THEN shown ELSE {})

\* chat.py:1531-1608.  forced_tool_calls holds at most one call, so the
\* joined response_lines are one line.
FinalResponse(skip, agentText, os) ==
    LET executed == ExecutedTools(os)
        lines    == Pick(executed, {i \in DOMAIN executed :
                                        /\ executed[i].call.tool \in ConfirmedOperations
                                        /\ executed[i].error = ""})
        errors   == ToolErrors(os)
        generated ==
            IF skip /\ executed # <<>>
            THEN (IF lines # <<>> THEN ResultLine(lines[1])
                  ELSE IF agentText = NoReply THEN Reply("done", "", NoId, NoTitle, {})
                  ELSE agentText)
            ELSE agentText
        reported ==
            IF errors # <<>>
            THEN Reply("errors", "", NoId, NoTitle,
                       {<<errors[i].call.tool, errors[i].error>> :
                            i \in {j \in DOMAIN errors : j <= 3}})
            ELSE generated
        lists == {i \in DOMAIN executed : executed[i].call.tool = "list_tasks"}
        listing == executed[CHOOSE i \in lists : \A j \in lists : j <= i].listing
    IN  IF lists = {} THEN reported
        ELSE IF listing = {} THEN Reply("list_empty", "", NoId, NoTitle, {})
        ELSE Reply("list", "", NoId, NoTitle, {<<"task", t>> : t \in listing})

(***************************************************************************)
(* State                                                                   *)
(***************************************************************************)

VARIABLES
    tasks,       \* the task table
    next_id,     \* the id the next inserted task gets
    history,     \* the conversation's messages, oldest first
    turn,        \* number of chat requests served
    path,        \* how the last request left the handler
    message,     \* the last request's message
    intent,      \* detected_intent of the last request
    forced,      \* forced_tool_calls of the last request
    proposed,    \* the tool calls the LLM returned in the last request
    llm_called,  \* whether run_agent was called in the last request
    outcomes,    \* the executed calls of the last request, in order
    tool_calls,  \* tool_calls of the last request's ChatResponse
    before,      \* the task table when the last request arrived
    requests,    \* overlapping requests: what each has read and done
    lookup       \* a call of fuzzy_match_task_title: its arguments and result

vars == <<tasks, next_id, history, turn, path, message, intent, forced,
          proposed, llm_called, outcomes, tool_calls, before, requests, lookup>>

RequestIds == 1..MaxRequests

\* a request the server has not received yet; `seen` is the conversation
\* history the handler fetched, `forced` and `calls` what it then did
NewRequest == [state |-> "new", message |-> <<>>, seen |-> <<>>, forced |-> <<>>, calls |-> <<>>]

\* the call fuzzy_match_task_title(query, task_titles, threshold) before it
\* has returned
Lookup(query, task_titles, threshold) ==
    [query |-> query, task_titles |-> task_titles, threshold |-> threshold,
     returned |-> FALSE, matches |-> <<>>]

\* no call
NoLookup == Lookup(NoTitle, <<>>, 60)

InitialTasks ==
    { Task(1, User,  "buy milk",       "medium", FALSE, "NULL"),
      Task(2, User,  "confirm flight", "medium", FALSE, "friday"),
      Task(3, Other, "pay rent",       "medium", FALSE, "NULL") }

\* the first request of a conversation arrives at a server whose task table
\* is `table`
InitWith(table) ==
    /\ tasks = table
    /\ next_id = 4
    /\ history = <<>>
    /\ turn = 0
    /\ path = "start"
    /\ message = <<>>
    /\ intent = NoIntent
    /\ forced = <<>>
    /\ proposed = <<>>
    /\ llm_called = FALSE
    /\ outcomes = <<>>
    /\ tool_calls = <<>>
    /\ before = table
    /\ requests = [r \in RequestIds |-> NewRequest]
    /\ lookup = NoLookup

Init == InitWith(InitialTasks)

\* chat.py:336-352
ConversationHistory == LastK(history, HistoryLimit)

\* a handler that stores its reply and not the message it answers
ReplyOnly(msg, r) == history \o << AssistantTurn(r) >>

\* chat.py:382-393, 520-531, 1522-1527 and 1612-1618: the user's message, then
\* the assistant's
Stored(msg, r) == history \o << UserTurn(msg), AssistantTurn(r) >>

(***************************************************************************)
(* One action per way a chat request leaves the handler                    *)
(***************************************************************************)

\* what every request records; tool_calls is executed_tools (chat.py:1624),
\* [] in the two early returns (chat.py:399, 538)
Served(p, msg, in, f, prop, called, os) ==
    /\ turn' = turn + 1
    /\ path' = p
    /\ message' = msg
    /\ intent' = in
    /\ forced' = f
    /\ proposed' = prop
    /\ llm_called' = called
    /\ outcomes' = os
    /\ tool_calls' = ExecutedTools(os)
    /\ before' = tasks

\* chat.py:361
Detected(msg) == DetectIntent(msg, ConversationHistory)

\* chat.py:365-400: "no" to a question of the assistant
CancelReply(msg, h, in) ==
    /\ in = NoIntent /\ h # <<>> /\ IsCancellation(msg, h)
    /\ history' = Stored(msg, Reply("cancelled", "", NoId, NoTitle, {}))
    /\ UNCHANGED <<tasks, next_id>>
    /\ Served("cancel", msg, in, <<>>, <<>>, FALSE, <<>>)

CancelTurn(msg) ==
    /\ turn < MaxTurns /\ CancelReply(msg, ConversationHistory, Detected(msg))
    /\ UNCHANGED <<requests, lookup>>

\* chat.py:402-539: the intent needs confirmation; the question is the reply
ConfirmationReply(msg, in) ==
    /\ in # NoIntent /\ in.needs_confirmation
    /\ history' = Stored(msg, ConfirmationMessage(tasks, in))
    /\ UNCHANGED <<tasks, next_id>>
    /\ Served("confirm", msg, in, <<>>, <<>>, FALSE, <<>>)

ConfirmationTurn(msg) ==
    /\ turn < MaxTurns /\ ConfirmationReply(msg, Detected(msg))
    /\ UNCHANGED <<requests, lookup>>

\* the handler not returning after the confirmation question
ReachesExecutionUnconfirmed(msg, h, in) ==
    ~(in = NoIntent /\ h # <<>> /\ IsCancellation(msg, h))

\* chat.py:1068 is reached: neither of the two replies above ended the request
ReachesExecution(msg, h, in) ==
    /\ ~(in = NoIntent /\ h # <<>> /\ IsCancellation(msg, h))
    /\ ~(in # NoIntent /\ in.needs_confirmation)

\* chat.py:1089-1092, the agent's response when run_agent is skipped
SkippedAgent == [response |-> NoReply, tool_calls |-> <<>>]

\* chat.py:1521-1627: the store after the calls, the stored reply
Executed(p, msg, in, f, agent, run) ==
    /\ tasks' = run.tasks
    /\ next_id' = run.next_id
    /\ history' = Stored(msg, FinalResponse(p = "forced", agent.response, run.outcomes))
    /\ Served(p, msg, in, f, agent.tool_calls, p = "agent", run.outcomes)

\* chat.py:1074-1519: the forced calls first, then the agent's, without
\* duplicates
Execution(p, msg, in, f, agent) ==
    /\ SkipAiAgent(f) <=> (p = "forced")
    /\ Executed(p, msg, in, f, agent,
                ExecuteAll(tasks, next_id, User, Deduplicate(f \o agent.tool_calls)))

\* chat.py:541-1066
Forced(h, in) == IF in = NoIntent THEN <<>> ELSE ForcedToolCalls(tasks, h, in)

\* chat.py:571-594, 607-630 and their copies: the title search of a confirmed
\* intent ends the request with a question or with the user's task list
SearchReply(msg, in) ==
    /\ in # NoIntent /\ ~in.needs_confirmation
    /\ TitleSearch(tasks, in).reply # NoReply
    /\ history' = Stored(msg, TitleSearch(tasks, in).reply)
    /\ UNCHANGED <<tasks, next_id>>
    /\ Served("search", msg, in, <<>>, <<>>, FALSE, <<>>)

SearchTurn(msg) ==
    /\ turn < MaxTurns /\ SearchReply(msg, Detected(msg))
    /\ UNCHANGED <<requests, lookup>>

Turn(p, msg, h, in, agent) ==
    /\ ReachesExecution(msg, h, in)
    /\ TitleSearch(tasks, in).reply = NoReply
    /\ Execution(p, msg, in, Forced(h, in), agent)

\* chat.py:1083-1627 with skip_ai_agent: the forced call is executed and the
\* reply is generated from its result
ForcedTurn(msg) ==
    /\ turn < MaxTurns
    /\ Turn("forced", msg, ConversationHistory, Detected(msg), SkippedAgent)
    /\ UNCHANGED <<requests, lookup>>

\* chat.py:1093-1627 without skip_ai_agent: run_agent is called and the calls
\* it returns are executed after the forced ones
AgentTurn(msg, completion) ==
    turn < MaxTurns
    /\ Turn("agent", msg, ConversationHistory, Detected(msg), RunAgent(completion))
    /\ UNCHANGED <<requests, lookup>>

Next ==
    \E msg \in UserMessages :
        \/ CancelTurn(msg)
        \/ ConfirmationTurn(msg)
        \/ ForcedTurn(msg)
        \/ \E completion \in Completions : AgentTurn(msg, completion)

Spec == Init /\ [][Next]_vars

(***************************************************************************)
(* Conversations that set a due date: a text that parses to a timestamp    *)
(* and one that does not, alone or next to a new priority, for task 2,     *)
(* which has a due date.                                                   *)
(***************************************************************************)

DueDateMessages ==
    { <<"yes">>, <<"no">>, <<"hello">>,
      <<"update", "task", "2", "due", "date", "to", "whenever">>,
      <<"update", "task", "2", "priority", "to", "high", "due", "date", "to", "whenever">>,
      <<"update", "task", "2", "priority", "to", "high", "due", "date", "to", "tomorrow">> }

DueDateNext ==
    \E msg \in DueDateMessages :
        \/ CancelTurn(msg)
        \/ ConfirmationTurn(msg)
        \/ ForcedTurn(msg)
        \/ \E completion \in Completions : AgentTurn(msg, completion)

DueDateSpec == Init /\ [][DueDateNext]_vars

(***************************************************************************)
(* Conversations that name tasks by title, tasks of another user and tasks *)
(* that do not exist, or name no task or no new value, on every kind of    *)
(* task table.  (No message of UserMessages names a task by title, so no   *)
(* request of Spec leaves the handler from a title search.)                *)
(***************************************************************************)

LookupMessages ==
    { <<"yes">>, <<"no">>, <<"buy", "milk">>,
      <<"delete", "task">>,
      <<"delete", "task", "milks">>, <<"delete", "task", "jog">>,
      <<"delete", "task", "rent">>,
      <<"delete", "task", "3">>,
      <<"update", "task", "3", "priority", "to", "high">>,
      <<"update", "task", "1", "priority">> }

\* the LLM fails, returns neither a text nor a call, asks for a
\* confirmation in its own words, or proposes a
\* call on task 3 (in one of them with the other user's id in the params, in
\* one followed by a listing of the tasks)
LookupCompletions ==
    { Completion(TRUE, "", <<>>),
      Completion(FALSE, "", <<>>),
      Completion(FALSE, AskDeleteMilks, <<>>),
      Completion(FALSE, "", << Call("delete_task", 3, {}, Other) >>),
      Completion(FALSE, "chat", << Call("update_task", 3, {<<"priority", "high">>}, "") >>),
      Completion(FALSE, "chat", << Call("add_task", NoId, {<<"title", "jog">>}, "") >>),
      Completion(FALSE, "chat", << Call("delete_task", 3, {}, ""),
                                   Call("list_tasks", NoId, {<<"status", "all">>}, "") >>) }

\* the user has tasks and so has another user; only the user has; the user
\* has none
TaskTables ==
    { InitialTasks,
      {t \in InitialTasks : t.user_id = User},
      {t \in InitialTasks : t.user_id = Other} }

LookupInit == \E table \in TaskTables : InitWith(table)

LookupNext ==
    \E msg \in LookupMessages :
        \/ CancelTurn(msg)
        \/ ConfirmationTurn(msg)
        \/ SearchTurn(msg)
        \/ ForcedTurn(msg)
        \/ \E completion \in LookupCompletions : AgentTurn(msg, completion)

LookupSpec == LookupInit /\ [][LookupNext]_vars

(***************************************************************************)
(* Overlapping requests of one conversation.  The handler keeps no state   *)
(* between requests and takes no lock: a request fetches the conversation  *)
(* history (chat.py:336-352), and everything after that uses the fetched   *)
(* copy, the task table and the message table as they are by then.         *)
(***************************************************************************)

\* The messages sent in overlapping requests.
ConcurrentMessages == { <<"yes">>, <<"no">>, <<"delete", "task", "1">> }

\* chat.py:279-361: the request arrives and the history is fetched
Receive(r, msg) ==
    /\ requests[r].state = "new"
    /\ IF r = 1 THEN TRUE ELSE requests[r - 1].state # "new"
    /\ requests' = [requests EXCEPT ![r] = [NewRequest EXCEPT !.state = "read",
                                                             !.message = msg,
                                                             !.seen = ConversationHistory]]
    /\ UNCHANGED <<tasks, next_id, history, turn, path, message, intent, forced,
                   proposed, llm_called, outcomes, tool_calls, before, lookup>>

\* the request is answered: what it forced and executed is kept with it
Answer(r) ==
    /\ requests' = [requests EXCEPT ![r] = [@ EXCEPT !.state = "done",
                                                     !.forced = forced',
                                                     !.calls = outcomes']]
    /\ UNCHANGED lookup

\* chat.py:361-400 on the fetched history
CancelFinish(r) ==
    /\ requests[r].state = "read"
    /\ CancelReply(requests[r].message, requests[r].seen,
                   DetectIntent(requests[r].message, requests[r].seen))
    /\ Answer(r)

\* chat.py:361-539 on the fetched history
ConfirmationFinish(r) ==
    /\ requests[r].state = "read"
    /\ ConfirmationReply(requests[r].message,
                         DetectIntent(requests[r].message, requests[r].seen))
    /\ Answer(r)

\* chat.py:361-1627 on the fetched history, run_agent skipped
ForcedFinish(r) ==
    /\ requests[r].state = "read"
    /\ Turn("forced", requests[r].message, requests[r].seen,
            DetectIntent(requests[r].message, requests[r].seen), SkippedAgent)
    /\ Answer(r)

\* chat.py:361-1627 on the fetched history, run_agent called
AgentFinish(r, completion) ==
    /\ requests[r].state = "read"
    /\ Turn("agent", requests[r].message, requests[r].seen,
            DetectIntent(requests[r].message, requests[r].seen), RunAgent(completion))
    /\ Answer(r)

ConcurrentNext ==
    \E r \in RequestIds :
        \/ \E msg \in ConcurrentMessages : Receive(r, msg)
        \/ CancelFinish(r)
        \/ ConfirmationFinish(r)
        \/ ForcedFinish(r)
        \/ \E completion \in Completions : AgentFinish(r, completion)

ConcurrentSpec == Init /\ [][ConcurrentNext]_vars

(***************************************************************************)
(* The detector on its own: detect_user_intent(message, history) applied   *)
(* to transcripts of every shape, as chat.py:361 calls it, with the        *)
(* dispatch of chat.py:365-539 on its result.  A transcript is a sequence  *)
(* of exchanges, a user message and the assistant text that answered it;   *)
(* the assistant texts are the handler's own replies and texts of the LLM. *)
(***************************************************************************)

\* Number of detector calls explored on one transcript.
MaxCalls == 2

\* The messages given to the detector.
DetectorMessages ==
    { <<"yes">>, <<"no">>, <<"hello">>,
      <<"show", "all", "tasks">>,
      <<"update", "task">>,
      <<"delete", "task">>, <<"delete", "task", "1">>,
      <<"complete", "task">>, <<"finish", "task">>,
      <<"add", "task">>, <<"add", "task", "buy", "milk">>, <<"add", "a", "new", "task">>,
      <<"add", "task", "urgent", "report">>,
      <<"priority", "to", "high">>, <<"change", "priority", "high">>,
      <<"no", "deadline">>, <<"remove", "due", "date">>,
      <<"ok", "delete", "task", "2">>, <<"no", "delete", "task", "2">> }

Exchange(msg, r) == << UserTurn(msg), AssistantTurn(r) >>

\* a message and the text it was answered by: the questions of chat.py:436-517,
\* the title-search texts, results of executed calls, texts of the LLM
Exchanges ==
    { Exchange(<<"hello">>, Reply("llm", "chat", NoId, NoTitle, {})),
      Exchange(<<"add", "task">>, Reply("llm", AskAddTitle, NoId, NoTitle, {})),
      Exchange(<<"delete", "task", "1">>, Reply("confirm", "delete", 1, NoTitle, {})),
      Exchange(<<"complete", "task", "1">>, Reply("confirm", "complete", 1, NoTitle, {})),
      Exchange(<<"update", "task", "1">>, Reply("update_ask", "", 1, NoTitle, {})),
      Exchange(<<"update", "task", "1", "priority", "to", "high">>,
               Reply("confirm", "update", 1, NoTitle, {<<"priority", "high">>})),
      Exchange(<<"delete", "task">>, Reply("generic", "", NoId, NoTitle, {})),
      Exchange(<<"yes">>, Reply("candidate", "delete", 1, "buy milk", {<<"query", "milks">>})),
      Exchange(<<"yes">>, Reply("not_found", "", NoId, "jog",
                                {<<"task", "buy milk">>, <<"task", "confirm flight">>})),
      Exchange(<<"yes">>, Reply("result", "delete_task", 1, "buy milk", {})),
      Exchange(<<"no">>, Reply("cancelled", "", NoId, NoTitle, {})) }

\* intent_detector.py:949 - the longest window the detector reads,
\* conversation_history[-10:]
Lookback == 10

\* five exchanges of small talk, as many turns as the longest window
SmallTalk ==
    LET e == Exchange(<<"hello">>, Reply("llm", "chat", NoId, NoTitle, {}))
    IN  e \o e \o e \o e \o e

\* an old exchange or none, small talk or none, a recent exchange or none
Transcripts ==
    { old \o talk \o recent : old \in Exchanges \cup {<<>>},
                              talk \in {<<>>, SmallTalk},
                              recent \in Exchanges \cup {<<>>} }

DetectorInit ==
    /\ history \in Transcripts
    /\ tasks = InitialTasks
    /\ next_id = 4
    /\ turn = 0
    /\ path = "start"
    /\ message = <<>>
    /\ intent = NoIntent
    /\ forced = <<>>
    /\ proposed = <<>>
    /\ llm_called = FALSE
    /\ outcomes = <<>>
    /\ tool_calls = <<>>
    /\ before = InitialTasks
    /\ requests = [r \in RequestIds |-> NewRequest]
    /\ lookup = NoLookup

\* a detector instance that keeps the transcript it was last called with for
\* another conversation
RememberingDetector(msg, h) ==
    IF requests[MaxRequests].state = "new" THEN DetectIntent(msg, h)
    ELSE DetectIntent(msg, requests[MaxRequests].seen)

\* intent_detector.py:1506-1532: the call on the module's one detector
\* instance, which has no attributes (class constants only)
detect_user_intent(msg, h) == DetectIntent(msg, h)

\* chat.py:365-539: the request ends with the cancellation text, ends with a
\* confirmation question, or goes on to execution
Dispatch(msg, h, in) ==
    IF in = NoIntent /\ h # <<>> /\ IsCancellation(msg, h) THEN "cancel"
    ELSE IF in # NoIntent /\ in.needs_confirmation THEN "confirm"
    ELSE "execute"

\* chat.py:361-539 for one message on the transcript.  The call reads the
\* message and the transcript and writes nothing.
Detect(msg) ==
    LET detected_intent == detect_user_intent(msg, history)
    IN  /\ turn < MaxCalls
        /\ turn' = turn + 1
        /\ message' = msg
        /\ intent' = detected_intent
        /\ path' = Dispatch(msg, history, detected_intent)
        /\ UNCHANGED <<tasks, next_id, history, forced, proposed, llm_called, outcomes,
                       tool_calls, before, requests, lookup>>

\* the calls that requests of other conversations make meanwhile
OtherCalls ==
    { << <<"yes">>, Exchange(<<"delete", "task", "1">>, Reply("confirm", "delete", 1, NoTitle, {})) >>,
      << <<"show", "all", "tasks">>, <<>> >> }

\* chat.py:361 in the request of another conversation: the same detector
\* instance is called with that conversation's message and transcript, and
\* that request goes its way with the result
DetectElsewhere(r, msg, h) ==
    LET detected_intent == detect_user_intent(msg, h)
    IN  /\ requests[r].state = "new"
        /\ requests' = [requests EXCEPT ![r] =
                            [NewRequest EXCEPT !.state = Dispatch(msg, h, detected_intent),
                                               !.message = msg,
                                               !.seen = h]]
        /\ UNCHANGED <<tasks, next_id, history, turn, path, message, intent, forced,
                       proposed, llm_called, outcomes, tool_calls, before, lookup>>

DetectorNext ==
    \/ \E msg \in DetectorMessages : Detect(msg)
    \/ \E call \in OtherCalls : DetectElsewhere(MaxRequests, call[1], call[2])

DetectorSpec == DetectorInit /\ [][DetectorNext]_vars

(***************************************************************************)
(* The classifier on its own: detect_user_intent applied to messages that  *)
(* match the patterns of one trigger group, of several, or of none, after  *)
(* no transcript or one exchange.                                          *)
(***************************************************************************)

\* The messages given to the classifier.
ClassifierMessages ==
    { <<"yes">>, <<"hello">>,
      <<"update", "task", "1">>, <<"delete", "task", "1">>, <<"complete", "task", "1">>,
      <<"mark", "task", "1", "as", "incomplete">>,
      <<"add", "task", "buy", "milk">>, <<"show", "all", "tasks">>,
      <<"delete", "task", "1", "update", "task">>,
      <<"list", "tasks", "delete", "task", "2">>,
      <<"remove", "task", "complete", "task", "1">>,
      <<"uncomplete", "task", "1">>,
      <<"show", "tasks", "unmark", "task", "1">>,
      <<"show", "all", "tasks", "add", "task">>,
      <<"add", "task", "show", "all", "tasks">> }

ClassifierInit ==
    /\ DetectorInit
    /\ Len(history) <= 2

ClassifierNext == \E msg \in ClassifierMessages : Detect(msg)

ClassifierSpec == ClassifierInit /\ [][ClassifierNext]_vars

(***************************************************************************)
(* The detector on messages that give the details of an update, a new      *)
(* completion status among them: in reply to the question what to update,  *)
(* and in one message with the task.                                       *)
(***************************************************************************)

DetailsMessages ==
    { <<"mark", "as", "incomplete">>, <<"mark", "as", "complete">>,
      <<"mark", "as", "pending">>, <<"mark", "as", "done">>, <<"undone">>,
      <<"update", "task", "1", "priority", "to", "high", "mark", "as", "incomplete">>,
      <<"update", "task", "1", "priority", "to", "high", "mark", "as", "complete">>,
      <<"update", "task", "1", "priority", "to", "high", "mark", "as", "pending">>,
      <<"update", "task", "1", "priority", "to", "high", "mark", "as", "done">>,
      <<"update", "task", "1", "priority", "to", "high", "mark", "as", "undone">>,
      <<"update", "task", "1", "priority", "to", "high">> }

DetailsNext == \E msg \in DetailsMessages : Detect(msg)

DetailsSpec == ClassifierInit /\ [][DetailsNext]_vars

(***************************************************************************)
(* The title matcher on its own: fuzzy_match_task_title(query,             *)
(* task_titles, threshold) of ai_agent/utils.py applied to queries, lists  *)
(* of titles and thresholds of every shape.                                *)
(***************************************************************************)

\* Length of the longest list of titles.
MaxTitles == 3

\* the queries: none, a misspelt word, a word of no title, a word of a title,
\* a whole title
Queries == {NoTitle, "milks", "jog", "rent", "buy milk"}

\* the titles of the lists
Titles == {"buy milk", "confirm flight", "pay rent"}

\* the lists of titles, a title more than once among them
TitleLists == UNION {[1..n -> Titles] : n \in 0..MaxTitles}

\* the thresholds: below, at and above the scores of the model; 60 is the
\* default (utils.py:82) and find_task's, 80 that of utils.py:278
Thresholds == {22, 60, 62, 63, 80, 100}

MatcherInit ==
    /\ \E q \in Queries : \E ts \in TitleLists : \E th \in Thresholds :
           lookup = Lookup(q, ts, th)
    /\ tasks = InitialTasks
    /\ next_id = 4
    /\ history = <<>>
    /\ turn = 0
    /\ path = "start"
    /\ message = <<>>
    /\ intent = NoIntent
    /\ forced = <<>>
    /\ proposed = <<>>
    /\ llm_called = FALSE
    /\ outcomes = <<>>
    /\ tool_calls = <<>>
    /\ before = InitialTasks
    /\ requests = [r \in RequestIds |-> NewRequest]

\* utils.py:79-110: the call returns its list of matches
Match ==
    /\ ~lookup.returned
    /\ lookup' = [lookup EXCEPT !.returned = TRUE,
                                !.matches = fuzzy_match_task_title(lookup.query,
                                                                   lookup.task_titles,
                                                                   lookup.threshold)]
    /\ UNCHANGED <<tasks, next_id, history, turn, path, message, intent, forced,
                   proposed, llm_called, outcomes, tool_calls, before, requests>>

MatcherNext == Match

MatcherSpec == MatcherInit /\ [][MatcherNext]_vars

(***************************************************************************)
(* The title search on its own: find_task(db, params) of                   *)
(* mcp_tools/find_task.py applied to a query of a user on task tables of   *)
(* every shape: up to three tasks, each of the user or of another user,    *)
(* titles more than once among them.                                       *)
(***************************************************************************)

\* the titles of the tables: those of the matcher and one that scores above
\* the threshold for the same queries as "buy milk"
FinderTitles == Titles \cup {"milk"}

\* the rows a table has for one id: none, or a task of either user
Rows(id) ==
    {{}} \cup {{Task(id, u, t, "medium", FALSE, "NULL")} : u \in {User, Other}, t \in FinderTitles}

FinderTables == {r1 \cup r2 \cup r3 : r1 \in Rows(1), r2 \in Rows(2), r3 \in Rows(3)}

\* a call of find_task: FindTaskParams (find_task.py:17-35) and the result
Search(user_id, title) ==
    [query |-> title, task_titles |-> <<>>, threshold |-> 60, returned |-> FALSE,
     matches |-> <<>>, user_id |-> user_id, found |-> NoTask]

FinderInit ==
    /\ tasks \in FinderTables
    /\ before = tasks
    /\ \E q \in Queries : lookup = Search(User, q)
    /\ next_id = 4
    /\ history = <<>>
    /\ turn = 0
    /\ path = "start"
    /\ message = <<>>
    /\ intent = NoIntent
    /\ forced = <<>>
    /\ proposed = <<>>
    /\ llm_called = FALSE
    /\ outcomes = <<>>
    /\ tool_calls = <<>>
    /\ requests = [r \in RequestIds |-> NewRequest]

\* find_task.py:77-151: the call returns its result
Find ==
    /\ ~lookup.returned
    /\ lookup' = [lookup EXCEPT !.returned = TRUE,
                                !.found = find_task(tasks, lookup.user_id, lookup.query)]
    /\ UNCHANGED <<tasks, next_id, history, turn, path, message, intent, forced,
                   proposed, llm_called, outcomes, tool_calls, before, requests>>

FinderNext == Find

FinderSpec == FinderInit /\ [][FinderNext]_vars

(***************************************************************************)
(* What a chat turn is observed by                                         *)
(***************************************************************************)

\* the assistant message a conversation ends with
LastReplyOf(h) == IF h = <<>> THEN NoReply ELSE h[Len(h)].reply

\* the reply of the last request
Response == LastReplyOf(history)

\* the assistant message the last request's message answered
Answered == IF Len(history) >= 4 THEN history[Len(history) - 2].reply ELSE NoReply

\* the user message before the last request's
Previously == IF Len(history) >= 4 THEN history[Len(history) - 3].words ELSE <<>>

\* the questions of chat.py:436-517; the confirmation questions among them
\* are those of 436-499
IsQuestion(r) == r.kind \in {"confirm", "update_ask", "generic"}

IsConfirmationQuestion(r) == r.kind = "confirm"

MutatingOperations == {"update", "delete", "complete", "incomplete"}

MutatingTools ==
    {"add_task", "update_task", "delete_task", "complete_task", "set_task_deadline"}

\* the executed calls that entered a mutating store function
Mutations(os) == {i \in DOMAIN os : os[i].called /\ os[i].call.tool \in MutatingTools}

\* the confirmation question r asks for the operation that call c carries out
AsksFor(r, c) ==
    /\ IsConfirmationQuestion(r)
    /\ r.id = c.task_id
    /\ r.op \in (CASE c.tool = "delete_task"   -> {"delete"}
                   [] c.tool = "complete_task" -> {"complete"}
                   [] c.tool = "update_task"   -> {"update", "incomplete"}
                   [] OTHER                    -> {})

\* the intent in is a confirmed intent for the operation and task of call c
ConfirmedFor(in, c) ==
    /\ ~in.needs_confirmation
    /\ in.task_id = c.task_id
    /\ in.operation \in (CASE c.tool = "delete_task"   -> {"delete"}
                           [] c.tool = "complete_task" -> {"complete"}
                           [] c.tool = "update_task"   -> {"update", "incomplete"}
                           [] OTHER                    -> {})

\* "delete task n"
IsDeleteRequest(msg, n) ==
    Len(msg) = 3 /\ msg[1] = "delete" /\ msg[2] = "task" /\ IdOfWord(msg[3]) = n

(***************************************************************************)
(* Claims                                                                  *)
(***************************************************************************)

\* C1: an intent with operation update, delete, complete or incomplete has
\* needs_confirmation = false only when the most recent assistant turn is a
\* confirmation question and the message is a short affirmative reply.
C1_ConfirmedOnlyAfterQuestion ==
    (turn >= 1 /\ intent.operation \in MutatingOperations /\ ~intent.needs_confirmation)
        => (IsConfirmationQuestion(Answered) /\ IsConfirmationResponse(message, TRUE))

\* C2: a store call is forced for operation O on task N only if the preceding
\* assistant turn is the confirmation question for O on N; a clarification
\* prompt followed by a short affirmative reply forces nothing.
C2_ForcedOnlyAfterItsQuestion ==
    \A i \in DOMAIN forced : AsksFor(Answered, forced[i])

\* C3: when the confirmation question for (O, N) is the last assistant turn
\* and the user replies "yes", the detected intent has operation O, task id N
\* and needs_confirmation = false.
C3_RoundTrip ==
    (turn >= 1 /\ IsConfirmationQuestion(Answered) /\ message = <<"yes">>)
        => /\ intent.operation = Answered.op
           /\ intent.task_id = Answered.id
           /\ ~intent.needs_confirmation

\* C4: a turn whose detected intent needs confirmation replies with a
\* question, does not call the LLM, executes no store mutation and returns an
\* empty tool_calls list.
C4_QuestionOnly ==
    (turn >= 1 /\ intent.needs_confirmation)
        => /\ IsQuestion(Response)
           /\ ~llm_called
           /\ Mutations(outcomes) = {}
           /\ tasks = before
           /\ tool_calls = <<>>

C4_Witness ==
    /\ turn >= 2
    /\ intent.needs_confirmation /\ intent.operation = "complete"
    /\ Response = Reply("confirm", "complete", 1, NoTitle, {})
    /\ tasks = before /\ tasks # InitialTasks

\* C5, first turn: "delete task n" arriving when no question is pending is
\* answered by the confirmation question naming n, with no store call
C5_Asked(n) ==
    (IsDeleteRequest(message', n) /\ ~IsQuestion(Response))
        => /\ LastReplyOf(history') = Reply("confirm", "delete", n, NoTitle, {})
           /\ outcomes' = <<>>
           /\ tasks' = tasks

\* C5, second turn: "yes" to that question, task n being the user's
C5_Confirmed(n) ==
    (/\ IsDeleteRequest(message, n) /\ ~IsQuestion(Answered)
     /\ Owned(tasks, User, n) # {}
     /\ message' = <<"yes">>)
        => /\ Len(outcomes') = 1
           /\ outcomes'[1].call.tool = "delete_task"
           /\ outcomes'[1].call.task_id = n
           /\ outcomes'[1].called
           /\ Cardinality(list_tasks(tasks', User)) = Cardinality(list_tasks(tasks, User)) - 1

\* C5: for a task n of the user and no pending question, "delete task n" is
\* answered by a confirmation question naming n and issues no store call; the
\* following "yes" issues exactly one delete_task call with task_id n and no
\* other mutating call, and the user's task count is one less.
C5_DeleteScenario ==
    [][\A n \in {1, 2} : C5_Asked(n) /\ C5_Confirmed(n)]_vars

C5_Witness ==
    /\ IsDeleteRequest(Previously, 2) /\ message = <<"yes">>
    /\ Answered = Reply("confirm", "delete", 2, NoTitle, {})
    /\ Len(outcomes) = 1 /\ outcomes[1].call = Call("delete_task", 2, {}, "")
    /\ Owned(before, User, 2) # {} /\ Owned(tasks, User, 2) = {}
    /\ Cardinality(list_tasks(tasks, User)) = Cardinality(list_tasks(before, User)) - 1

\* C6: when a confirmation question is pending and the short reply contains a
\* negative keyword, no store mutation is executed, the task table is as it
\* was and the reply is the cancellation acknowledgement.
C6_NegativeReplyCancels ==
    (/\ turn >= 1 /\ IsConfirmationQuestion(Answered)
     /\ Len(message) <= ShortReplyWords /\ ContainsAny(message, CONFIRM_NO))
        => /\ Mutations(outcomes) = {}
           /\ tasks = before
           /\ Response.kind = "cancelled"

\* C7: a delete_task, update_task or complete_task call the LLM proposed is
\* executed only in a turn whose detected intent is a confirmed intent for
\* that operation and task.
C7_ProposedNeverExecuted ==
    \A i \in DOMAIN outcomes :
        (/\ outcomes[i].call.tool \in ConfirmedOperations
         /\ \E j \in DOMAIN proposed : proposed[j] = outcomes[i].call)
            => ConfirmedFor(intent, outcomes[i].call)

\* C8: at most one mutating store call is executed in one turn.
C8_OneMutationPerTurn == Cardinality(Mutations(outcomes)) <= 1

\* C9: no two executed tool calls of one turn have the same tool name and the
\* same parameters, user_id left aside.
C9_NoDuplicateCalls ==
    \A i, j \in DOMAIN outcomes :
        Signature(outcomes[i].call) = Signature(outcomes[j].call) => i = j

C9_Witness ==
    /\ \E i, j \in DOMAIN proposed :
            i < j /\ proposed[i] # proposed[j]
                  /\ Signature(proposed[i]) = Signature(proposed[j])
    /\ Len(outcomes) = Len(proposed) - 1
    /\ \E k \in DOMAIN outcomes : outcomes[k].call.tool = "delete_task" /\ outcomes[k].error = ""

\* C10: after a turn that executed a confirmed operation, an affirmative reply
\* in the next turn makes the detector neither re-emit the confirmed intent nor
\* the engine force the operation again.
C10_NotForcedAgain ==
    [][(/\ path = "forced" /\ outcomes # <<>>
        /\ IsConfirmationResponse(message', TRUE))
            => /\ \A i \in DOMAIN forced' : \A j \in DOMAIN forced : forced'[i] # forced[j]
               /\ ~(/\ intent'.operation = intent.operation
                    /\ intent'.task_id = intent.task_id
                    /\ ~intent'.needs_confirmation)]_vars

\* the calls of a finished request that entered the store
Issued(q) == {q.calls[i].call : i \in {j \in DOMAIN q.calls : q.calls[j].called}}

\* two requests that answer "yes" to the same pending confirmation question,
\* both having fetched the history before either stored its reply
BothAffirm(q1, q2) ==
    /\ q1.state = "done" /\ q2.state = "done"
    /\ q1.seen = q2.seen
    /\ IsConfirmationQuestion(LastReplyOf(q1.seen))
    /\ IsConfirmationResponse(q1.message, TRUE)
    /\ IsConfirmationResponse(q2.message, TRUE)

\* C11: when two requests carrying an affirmative reply to the same pending
\* confirmation are processed concurrently, the store call of the confirmed
\* operation is issued at most once in total across the two requests.
C11_IssuedOnce ==
    \A r1, r2 \in RequestIds :
        (r1 < r2 /\ BothAffirm(requests[r1], requests[r2]))
            => \A i \in DOMAIN requests[r1].forced :
                  ~(/\ requests[r1].forced[i] \in Issued(requests[r1])
                    /\ requests[r1].forced[i] \in Issued(requests[r2]))

(***************************************************************************)
(* C12                                                                     *)
(***************************************************************************)

OthersTasks(ts) == {t \in ts : t.user_id # User}

OwnTasks(ts) == {t \in ts : t.user_id = User}

\* the first executed call of the last request is an update or a delete of a
\* task that another user owns
OnOthersTask ==
    /\ outcomes # <<>>
    /\ outcomes[1].call.tool \in {"update_task", "delete_task"}
    /\ \E t \in OthersTasks(before) : t.id = outcomes[1].call.task_id

\* what the same call returns on a table in which the task does not exist
OnMissingTask == ExecuteTool(OwnTasks(before), 0, User, outcomes[1].call)

\* C12: a chat turn of the user reads and writes the user's tasks only.  The
\* tasks of other users are the same after every turn; an update or delete,
\* forced or proposed by the LLM, of a task id that another user owns ends in
\* "Task not found", exactly as it does when no task has that id; a task a
\* title search finds, names in a question or makes the target of a forced
\* call is one of the user's, and a task list in a reply has the user's
\* titles only.
C12_OwnTasksOnly ==
    /\ OthersTasks(tasks) = OthersTasks(before)
    /\ OnOthersTask =>
          /\ outcomes[1].error = "Task not found"
          /\ outcomes[1].error = OnMissingTask.error
          /\ outcomes[1].called = OnMissingTask.called
          /\ outcomes[1].title = OnMissingTask.title
          /\ outcomes[1].priority = OnMissingTask.priority
    /\ (intent.task_id = NoId /\ intent.task_title # NoTitle) =>
          /\ Response.kind \in {"confirm", "update_ask", "candidate"} /\ Response.id # NoId
                => \E t \in OwnTasks(before) : t.id = Response.id /\ t.title = Response.title
          /\ \A i \in DOMAIN forced : \E t \in OwnTasks(before) : t.id = forced[i].task_id
    /\ Response.kind \in {"not_found", "list"} =>
          \A it \in Response.items : it[1] = "task" => \E t \in OwnTasks(before) : t.title = it[2]

\* a confirmed delete or update of task 3, which the other user owns, was
\* forced and executed
C12_Witness ==
    /\ path = "forced" /\ OnOthersTask
    /\ outcomes[1].call.task_id = 3
    /\ outcomes[1].error = "Task not found"

(***************************************************************************)
(* C13                                                                     *)
(***************************************************************************)

\* the field changes an update confirmation question lists
Listed(r) == {it \in r.items : it[1] # "none"}

\* the last request affirmed the update confirmation question asked just
\* before it
AffirmedUpdate ==
    /\ IsConfirmationQuestion(Answered) /\ Answered.op = "update"
    /\ IsConfirmationResponse(message, TRUE)

\* C13: when the user affirms an update confirmation question, every
\* update_task call the turn forces carries exactly the field changes that the
\* question listed, whatever earlier turns of the conversation said.
C13_FieldsAsListed ==
    AffirmedUpdate =>
        \A i \in DOMAIN forced :
            forced[i].tool = "update_task" => forced[i].fields = Listed(Answered)

(***************************************************************************)
(* C14                                                                     *)
(***************************************************************************)

\* the user asked to remove the due date of a task, was asked to confirm
\* exactly that, and affirmed
AffirmedRemoval ==
    /\ AffirmedUpdate
    /\ RemovesDueDate(Previously)
    /\ Answered.id # NoId
    /\ Listed(Answered) = {<<"due_date", "NULL">>}

\* the executed calls of the last request that update task n
UpdatesOf(n) ==
    {i \in DOMAIN outcomes : outcomes[i].call.tool = "update_task"
                                /\ outcomes[i].call.task_id = n}

\* C14: when the user asks to remove a task's due date and affirms the
\* confirmation question, exactly one update_task call is issued for that
\* task, with due_date = null and nothing else; the task is not deleted and
\* its title, priority and completion are unchanged.
C14_DueDateRemoved ==
    AffirmedRemoval =>
        /\ Cardinality(UpdatesOf(Answered.id)) = 1
        /\ \A i \in UpdatesOf(Answered.id) :
                outcomes[i].call.fields = {<<"due_date", "NULL">>}
        /\ \A t \in before : t.id = Answered.id =>
                \E u \in tasks : /\ u.id = t.id /\ u.title = t.title
                                  /\ u.priority = t.priority /\ u.completed = t.completed

(***************************************************************************)
(* C15                                                                     *)
(***************************************************************************)

\* a mutating operation was detected and no task is named or found in the
\* context
Untargeted(in) ==
    /\ in.operation \in {"update_ask", "delete_ask", "complete_ask", "incomplete_ask"}
    /\ in.task_id = NoId /\ in.task_title = NoTitle

OperationAsked(in) ==
    CASE in.operation = "update_ask"     -> "update_ask"
      [] in.operation = "delete_ask"     -> "delete"
      [] in.operation = "complete_ask"   -> "complete"
      [] in.operation = "incomplete_ask" -> "incomplete"

\* the message is the title of one of the user's tasks
NamesTask(msg) == \E t \in OwnTasks(tasks) : Join(msg) = t.title

\* C15: when a mutating operation is detected without a target, the reply
\* asks which task is meant in a phrasing the follow-up check recognizes as a
\* question for that operation, and when the user's next message names a task
\* the request is resolved as that operation on the named task and answered
\* with its confirmation question.
C15_WhichTaskAsked ==
    [][ Untargeted(intent) =>
          /\ HasAny(Response, AskingPatterns)
          /\ AskedOperation(Response) = OperationAsked(intent)
          /\ NamesTask(message') =>
                /\ path' = "confirm"
                /\ intent'.operation = OperationAsked(intent)
                /\ Response'.kind \in {"confirm", "update_ask"}
                /\ Response'.title = Join(message') ]_vars

(***************************************************************************)
(* C16                                                                     *)
(***************************************************************************)

\* C16: the yes/no confirmation question of an update is the reply only when
\* the detected intent carries at least one field change, and the question
\* lists it; an update without one is answered by the question for details.
C16_ConcreteChange ==
    (path = "confirm" /\ intent.operation \in {"update", "update_ask"}) =>
        IF intent.params = {}
        THEN Response.kind = "update_ask"
        ELSE Response.kind = "confirm" /\ Response.op = "update" /\ Listed(Response) # {}

(***************************************************************************)
(* C17                                                                     *)
(***************************************************************************)

\* the title phrase by which the request that the last message answers named
\* its task: the phrase a candidate question repeats, the title in a question
\* of the LLM, or the phrase of the user's message before the question
PendingPhrase ==
    IF Answered.kind = "candidate"
    THEN (CHOOSE it \in Answered.items : it[1] = "query")[2]
    ELSE IF Answered.kind = "llm" THEN TaskTitleIn(Answered)
    ELSE IF ExtractTaskId(Previously) = NoId THEN ExtractTaskTitle(Previously)
    ELSE NoTitle

\* the user's task that matches the pending phrase best
PendingMatch == find_task(before, User, PendingPhrase)

\* the last request changed or removed task n
Mutated(n) == {t \in tasks : t.id = n} # {t \in before : t.id = n}

\* C17: a task that is the target of a request only as the best match, with
\* a confidence below 80, of the title phrase the user gave is not changed
\* or removed unless the last message affirms a question that asks about
\* that candidate itself, separate from the confirmation of the operation.
C17_CandidateAffirmedFirst ==
    (/\ path = "forced"
     /\ PendingPhrase # NoTitle
     /\ PendingMatch # NoTask /\ PendingMatch.confidence_score < 80
     /\ Mutated(PendingMatch.task_id))
    => /\ Answered.kind = "candidate"
       /\ Answered.id = PendingMatch.task_id
       /\ IsConfirmationResponse(message, TRUE)

(***************************************************************************)
(* C18                                                                     *)
(***************************************************************************)

\* the last request carried a confirmed mutating intent whose title matches
\* none of the user's tasks
ConfirmedUnmatched ==
    /\ intent.operation \in MutatingOperations /\ ~intent.needs_confirmation
    /\ intent.task_id = NoId /\ intent.task_title # NoTitle
    /\ find_task(before, User, intent.task_title) = NoTask

\* C18: a confirmed mutating intent whose title matches none of the user's
\* tasks changes nothing in the store and is answered by the request to
\* specify the task, whether the user has tasks or none.
C18_UnmatchedTitle ==
    ConfirmedUnmatched =>
        /\ tasks = before
        /\ outcomes = <<>>
        /\ Response.kind = "not_found"

(***************************************************************************)
(* C19                                                                     *)
(***************************************************************************)

\* the errors the store functions raise: no task of this id for this user
\* (not found and not owned are one error), no field to change
StoreErrors == {"Task not found", "At least one field must be provided"}

\* the calls of the last request that entered the store and failed there
FailedInStore ==
    {i \in DOMAIN outcomes : outcomes[i].called /\ outcomes[i].error \in StoreErrors}

\* C19: when a tool call of the turn failed with a store error, the turn's
\* reply is the report of the turn's errors, whatever the other calls of the
\* turn are.
C19_StoreErrorReported ==
    FailedInStore # {} => Response.kind = "errors"

(***************************************************************************)
(* C20                                                                     *)
(***************************************************************************)

\* a reply without text: the response "" of chat.py:1531
IsEmptyText(r) == r.kind = "none" \/ (r.kind = "llm" /\ r.op = "")

\* C20: every served request is answered by a reply whose text is not
\* empty, also when the LLM call fails or returns neither text nor calls.
C20_ReplyNotEmpty ==
    turn > 0 => ~IsEmptyText(Response)

(***************************************************************************)
(* C21                                                                     *)
(***************************************************************************)

\* C21: on every transcript the message 'show all tasks' is resolved to an
\* intent with operation list that needs no confirmation.
C21_ShowAllTasksLists ==
    (turn > 0 /\ message = <<"show", "all", "tasks">>)
    => (intent # NoIntent /\ intent.operation = "list" /\ ~intent.needs_confirmation)

(***************************************************************************)
(* C22                                                                     *)
(***************************************************************************)

\* C22: on every transcript the bare message 'update task' is resolved to
\* update_ask without task id and without task title; no target and no
\* other operation comes from the transcript.
C22_BareUpdateAsks ==
    (turn > 0 /\ message = <<"update", "task">>)
    => /\ intent # NoIntent
       /\ intent.operation = "update_ask"
       /\ intent.task_id = NoId
       /\ intent.task_title = NoTitle

(***************************************************************************)
(* C23                                                                     *)
(***************************************************************************)

\* the message matches a trigger pattern of add, delete, update or list
IsCommand(msg) ==
    MatchesAdd(msg) \/ MatchesDelete(msg) \/ MatchesUpdate(msg) \/ MatchesList(msg)

\* the last assistant turn asked for the title of the task to add
AskedForAddTitle(h) ==
    /\ h # <<>>
    /\ h[Len(h)].role = "assistant"
    /\ HasAny(h[Len(h)].reply, AddTitlePatterns)

\* C23: when the last assistant turn asked for the title of a task to add
\* and the message is itself a command, the detector returns no add intent
\* whose title is the text of that command.
C23_CommandNotTitle ==
    (turn > 0 /\ AskedForAddTitle(history) /\ IsCommand(message))
    => ~(/\ intent # NoIntent
         /\ intent.operation = "add"
         /\ <<"title", Join(message)>> \in intent.params)

(***************************************************************************)
(* C24                                                                     *)
(***************************************************************************)

\* the message holds a keyword of some priority level
HasPriorityKeyword(msg) == PriorityKeywordLevel(msg, FALSE) # ""

\* the intent was classified from the message itself, not re-emitted from a
\* pending confirmation
ClassifiedFromMessage ==
    /\ turn > 0 /\ intent # NoIntent
    /\ ~(CheckPendingConfirmation(history) # NoIntent /\ IsConfirmationResponse(message, TRUE))

\* C24: the intent of an add message that contains the keyword 'urgent' has
\* priority = high among its params; the intent of a message without any
\* priority keyword has no priority key among its params.
C24_PriorityFromKeywords ==
    ClassifiedFromMessage =>
        /\ (intent.operation = "add" /\ MatchesAdd(message) /\ Contains(message, "urgent"))
           => <<"priority", "high">> \in intent.params
        /\ ~HasPriorityKeyword(message) => ~HasParam(intent.params, "priority")

\* the second half alone
C24_NoKeywordNoPriority ==
    (ClassifiedFromMessage /\ ~HasPriorityKeyword(message))
    => ~HasParam(intent.params, "priority")

(***************************************************************************)
(* C25                                                                     *)
(***************************************************************************)

\* a confirmation is pending and the message has more than three words
LongReplyToPending ==
    /\ turn > 0
    /\ Len(message) > ShortReplyWords
    /\ CheckPendingConfirmation(history) # NoIntent

UpdatePrompt(h) ==
    /\ h # <<>>
    /\ h[Len(h)].role = "assistant"
    /\ h[Len(h)].reply.kind = "update_ask"
    /\ h[Len(h)].reply.id # NoId

\* C26: when the most recent assistant turn asks what to update on Task #N,
\* a reply that supplies field details is resolved to an update intent for
\* task N with the supplied fields that needs confirmation; the request ends
\* with the confirmation question, not with an execution or a cancellation.
C26_UpdateDetailsFollowUp ==
    (turn > 0 /\ UpdatePrompt(history) /\ HasDetails(message))
    => /\ intent # NoIntent
       /\ intent.operation = "update"
       /\ intent.task_id = history[Len(history)].reply.id
       /\ intent.params = FollowUpParams(message)
       /\ intent.needs_confirmation
       /\ path = "confirm"

(***************************************************************************)
(* C27                                                                     *)
(***************************************************************************)

\* C27: every intent with operation add or list needs no confirmation, for
\* every message and every transcript; the request goes on to execution.
C27_AddListUnconfirmed ==
    (turn > 0 /\ intent # NoIntent /\ intent.operation \in {"add", "list"})
    => (~intent.needs_confirmation /\ path = "execute")

\* a listing was requested while a confirmation question was pending, and a
\* title was given in answer to the question for the title of a new task
C27_Witness ==
    /\ turn > 0 /\ intent # NoIntent
    /\ \/ /\ intent.operation = "list"
          /\ CheckPendingConfirmation(history) # NoIntent
       \/ /\ intent.operation = "add"
          /\ AskedForAddTitle(history)
          /\ HasParam(intent.params, "title")
    /\ path = "execute"

(***************************************************************************)
(* C28                                                                     *)
(***************************************************************************)

RecentTurns(h) ==
    IF Len(h) > Lookback THEN SubSeq(h, Len(h) - Lookback + 1, Len(h)) ELSE h

\* the transcripts with the same last ten turns as h
SameTail(h) == {h2 \in Transcripts : RecentTurns(h2) = RecentTurns(h)}

\* C29: the intent resolved for a message depends only on the message and
\* the last ten turns of the transcript: every transcript with the same last
\* ten turns gives the same intent for the message.
C29_BoundedLookback ==
    turn > 0 => \A h2 \in SameTail(history) : detect_user_intent(message, h2) = intent

\* the message was resolved from the recent turns of a transcript that is
\* longer than ten turns, and transcripts with other turns before the last
\* ten exist
C29_Witness ==
    /\ turn > 0
    /\ Len(history) > Lookback
    /\ \E h2 \in SameTail(history) : h2[1] # history[1]
    /\ intent # NoIntent
    /\ intent.task_id # NoId

(***************************************************************************)
(* C30                                                                     *)
(***************************************************************************)

\* how often the title t is in the list of titles ts
TimesIn(t, ts) == Cardinality({i \in DOMAIN ts : ts[i] = t})

\* how often the title t is among the matches m
TimesMatched(t, m) == Cardinality({i \in DOMAIN m : m[i][1] = t})

C30_EmptyQuery ==
    lookup.returned /\ lookup.query = NoTitle /\ lookup.task_titles # <<>>

(***************************************************************************)
(* C31                                                                     *)
(***************************************************************************)

\* the last request affirmed the question whether to mark a task of the
\* user's as incomplete, asked just before it
AffirmedIncomplete ==
    /\ IsConfirmationQuestion(Answered) /\ Answered.op = "incomplete"
    /\ Answered.id # NoId
    /\ IsConfirmationResponse(message, TRUE)
    /\ \E t \in before : t.id = Answered.id /\ t.user_id = User

\* the executed calls of the last request that entered the store for task n
StoreCallsFor(n) ==
    {i \in DOMAIN outcomes : outcomes[i].called /\ outcomes[i].call.task_id = n}

\* C31: after an affirmative reply to the 'incomplete' confirmation for an
\* existing task #N of the user, exactly one store call is issued for task
\* N, the task is not completed afterwards, and the reply reports the
\* success, not an error.
C31_MarkedIncomplete ==
    AffirmedIncomplete =>
        /\ Cardinality(StoreCallsFor(Answered.id)) = 1
        /\ \E t \in tasks : t.id = Answered.id /\ ~t.completed
        /\ Response.kind = "result"

(***************************************************************************)
(* C32                                                                     *)
(***************************************************************************)

\* the forced update_task and delete_task calls of the last request that the
\* turn recorded as failed
ForcedFailures ==
    {i \in DOMAIN outcomes : /\ forced # <<>> /\ outcomes[i].call = forced[i]
                              /\ outcomes[i].call.tool \in {"update_task", "delete_task"}
                              /\ outcomes[i].error # ""}

\* C32: when the reply reports an error for a forced update_task or
\* delete_task call, that call left the store as it was before the request:
\* a committed change of a confirmed update or delete is never reported as
\* an error.
C32_ErrorMeansUnchanged ==
    (Response.kind = "errors" /\ ForcedFailures # {}) =>
        \A i \in ForcedFailures : ~Mutated(outcomes[i].call.task_id)

(***************************************************************************)
(* C33                                                                     *)
(***************************************************************************)

\* the trigger groups in the classifier's order, each with the test of its
\* patterns on a message
TriggerGroups == <<"update", "delete", "complete", "incomplete", "add", "list">>

MatchesGroup(msg, g) ==
    CASE g = "update"     -> MatchesUpdate(msg)
      [] g = "delete"     -> MatchesDelete(msg)
      [] g = "complete"   -> MatchesComplete(msg)
      [] g = "incomplete" -> MatchesIncomplete(msg)
      [] g = "add"        -> MatchesAdd(msg)
      [] g = "list"       -> MatchesList(msg)

\* the groups a message matches, and the first of them ("none" without one)
GroupsOf(msg) == {i \in DOMAIN TriggerGroups : MatchesGroup(msg, TriggerGroups[i])}

FirstGroup(msg) ==
    IF GroupsOf(msg) = {} THEN "none"
    ELSE TriggerGroups[CHOOSE i \in GroupsOf(msg) : \A j \in GroupsOf(msg) : i <= j]

\* the operation of an intent without the mark of a question for the task
OperationOf(in) ==
    CASE in.operation = "update_ask"     -> "update"
      [] in.operation = "delete_ask"     -> "delete"
      [] in.operation = "complete_ask"   -> "complete"
      [] in.operation = "incomplete_ask" -> "incomplete"
      [] OTHER                           -> in.operation

\* the last message was read as the reply to a pending confirmation or as
\* the follow-up to a question of the assistant
ContextApplies ==
    \/ /\ CheckPendingConfirmation(history) # NoIntent
       /\ \/ IsConfirmationResponse(message, TRUE)
          \/ IsConfirmationResponse(message, FALSE)
    \/ CheckFollowUpResponse(message, history) # NoIntent

C33_NoGroup ==
    /\ turn > 0 /\ ~ContextApplies
    /\ GroupsOf(message) = {} /\ intent = NoIntent

(***************************************************************************)
(* C34                                                                     *)
(***************************************************************************)

\* the position of the most recent assistant turn when it is one of the last
\* four turns of the transcript, 0 otherwise
MostRecentAssistant(h) ==
    LET idx == {i \in DOMAIN h : h[i].role = "assistant" /\ i > Len(h) - 4}
    IN  IF idx = {} THEN 0 ELSE CHOOSE i \in idx : \A j \in idx : j <= i

\* the transcript with the text of every other assistant turn replaced by
\* small talk; the user turns and the positions stay
OtherRepliesBlank(h) ==
    [i \in DOMAIN h |->
        IF h[i].role = "assistant" /\ i # MostRecentAssistant(h)
        THEN AssistantTurn(Reply("llm", "chat", NoId, NoTitle, {}))
        ELSE h[i]]

\* a confirmation question is in the transcript with an assistant turn after it
EarlierQuestion ==
    \E i \in DOMAIN history :
        /\ history[i].role = "assistant" /\ IsConfirmationQuestion(history[i].reply)
        /\ \E j \in DOMAIN history : j > i /\ history[j].role = "assistant"

\* C34: the pending confirmation that an affirmative reply confirms is
\* derived from the most recent assistant turn, and only when that turn is
\* among the last four of the transcript: no other assistant turn has a part
\* in the intent detected for the reply, so that a confirmation question with
\* a later assistant turn after it never makes "yes" emit its intent again.
C34_MostRecentAssistantOnly ==
    (turn > 0 /\ IsConfirmationResponse(message, TRUE)) =>
        intent = Resolve(message, history,
                         CheckPendingConfirmation(OtherRepliesBlank(history)),
                         CheckFollowUpResponse(message, history))

\* "yes" after a delete confirmation question that was already declined and
\* acknowledged: no intent
C34_Witness ==
    /\ turn > 0 /\ message = <<"yes">>
    /\ Len(history) = 4 /\ EarlierQuestion
    /\ history[2].reply = Reply("confirm", "delete", 1, NoTitle, {})
    /\ history[4].reply.kind = "cancelled"
    /\ intent = NoIntent

\* the same after ten turns of small talk
C34_OutOfWindow ==
    /\ turn > 0 /\ message = <<"yes">>
    /\ Len(history) = 12 /\ history[2].reply.kind = "confirm"
    /\ intent = NoIntent

(***************************************************************************)
(* C35                                                                     *)
(***************************************************************************)

\* none of the three parsers reads a timestamp from the text
CannotNormalize(text) ==
    /\ FromIsoFormat(text) = "NULL" /\ DateutilParse(text) = "NULL"
    /\ CalParse(text).status \notin {1, 2, 3}

\* the last request was a confirmed update whose due-date text cannot be
\* normalized
ConfirmedUnparsedDueDate ==
    /\ turn > 0 /\ intent.operation = "update" /\ ~intent.needs_confirmation
    /\ \E p \in intent.params :
            p[1] = "due_date" /\ p[2] # "NULL" /\ CannotNormalize(p[2])

\* C35: when the due-date text of a confirmed update cannot be normalized to
\* a timestamp, no update_task call of the turn carries a due_date, neither
\* the current time nor another value, and the due date of every stored task
\* is what it was before the request.
C35_UnparsedDueDateOmitted ==
    ConfirmedUnparsedDueDate =>
        /\ \A i \in DOMAIN outcomes :
                outcomes[i].call.tool = "update_task"
                    => ~HasParam(outcomes[i].call.fields, "due_date")
        /\ \A t \in before : \A u \in tasks : u.id = t.id => u.due_date = t.due_date

\* the confirmed update of task 2 to priority high and due date "whenever"
\* was executed: the call carries the priority alone, the priority is stored
\* and the task's due date is still the one it had
C35_Witness ==
    /\ ConfirmedUnparsedDueDate /\ path = "forced"
    /\ FieldOf(intent.params, "due_date") = "whenever"
    /\ forced = << Call("update_task", 2, {<<"priority", "high">>}, "") >>
    /\ outcomes # <<>> /\ outcomes[1].called
    /\ \E t \in tasks : t.id = 2 /\ t.priority = "high" /\ t.due_date = "friday"

(***************************************************************************)
(* C36                                                                     *)
(***************************************************************************)

\* the message says "mark as incomplete", "pending" or "undone"
AsksIncomplete(msg) ==
    \/ Adjacent(msg, <<"mark", "as", "incomplete">>)
    \/ \E i \in DOMAIN msg : msg[i] \in {"pending", "undone"}

\* the message says "mark as complete" or "done"
AsksComplete(msg) ==
    \/ Adjacent(msg, <<"mark", "as", "complete">>)
    \/ \E i \in DOMAIN msg : msg[i] = "done"

\* the last message was read as the details of an update
UpdateDetailsRead ==
    /\ turn > 0 /\ intent.operation = "update" /\ intent.needs_confirmation

\* C36: in the details of an update, "mark as incomplete", "pending" or
\* "undone" gives params.completed = false, "mark as complete" or "done"
\* gives params.completed = true, and no message gives both values.
C36_CompletedFromText ==
    UpdateDetailsRead =>
        /\ AsksIncomplete(message) => <<"completed", "false">> \in intent.params
        /\ AsksComplete(message) => <<"completed", "true">> \in intent.params
        /\ ~(/\ <<"completed", "false">> \in intent.params
             /\ <<"completed", "true">> \in intent.params)

(***************************************************************************)
(* C37                                                                     *)
(***************************************************************************)

\* the tasks of the user who searches, and the highest score any of their
\* titles has for the query (0 without a task)
Searched == {t \in tasks : t.user_id = lookup.user_id}

TopScore ==
    IF Searched = {} THEN 0
    ELSE LET best == CHOOSE t \in Searched :
                        \A u \in Searched : token_set_ratio(lookup.query, u.title)
                                                <= token_set_ratio(lookup.query, t.title)
         IN  token_set_ratio(lookup.query, best.title)

\* the titles of the user's tasks that score 60 or more
Candidates == {t.title : t \in {u \in Searched : token_set_ratio(lookup.query, u.title) >= 60}}

\* C37: find_task returns one task or none: when the best fuzzy score of the
\* titles of the requesting user's tasks is 60 or more, a task of that user
\* whose title has that score, with the score; otherwise nothing.  Several
\* titles at or above the threshold give the best one, not an error.
C37_BestOwnMatch ==
    lookup.returned =>
        IF TopScore >= 60
        THEN /\ lookup.found # NoTask
             /\ lookup.found.confidence_score = TopScore
             /\ \E t \in Searched : /\ t.id = lookup.found.task_id
                                    /\ t.title = lookup.found.title
                                    /\ token_set_ratio(lookup.query, t.title) = TopScore
        ELSE lookup.found = NoTask

\* "milks" with two titles of the user above the threshold and a better one
\* among another user's tasks only in name: the better of the user's two
C37_Witness ==
    /\ lookup.returned /\ lookup.query = "milks"
    /\ Candidates = {"buy milk", "milk"}
    /\ \E t \in tasks : t.user_id = Other /\ t.title = "milk"
    /\ lookup.found.title = "milk" /\ lookup.found.confidence_score = 89
    /\ \E t \in Searched : t.id = lookup.found.task_id

\* the only title above the threshold is another user's: nothing is found
C37_OthersOnly ==
    /\ lookup.returned /\ lookup.query = "rent"
    /\ \E t \in tasks : t.user_id = Other /\ t.title = "pay rent"
    /\ Searched # {} /\ lookup.found = NoTask

(***************************************************************************)
(* C38                                                                     *)
(***************************************************************************)

\* C38: with the requests of a conversation served one after the other,
\* every served request has added one user message and, after it, one
\* assistant message: the stored transcript has two messages per request,
\* user and assistant in turns, beginning with a user message, and its last
\* two messages are the last request's message and the reply to it.
C38_Alternation ==
    /\ Len(history) = 2 * turn
    /\ \A i \in DOMAIN history :
            history[i].role = IF i % 2 = 1 THEN "user" ELSE "assistant"
    /\ turn > 0 => history[Len(history) - 1] = UserTurn(message)

\* three requests that left the handler in three ways: with a confirmation
\* question, from the title search, and after the execution of tool calls
C38_Witness ==
    /\ turn = MaxTurns /\ Len(history) = 6
    /\ history[2].reply.kind = "confirm"
    /\ history[4].reply.kind \in {"candidate", "not_found"}
    /\ path \in {"forced", "agent"} /\ outcomes # <<>>
====
